---- MODULE Spec2Model ----
(***************************************************************************)
(* Verifiable Credentials core (issue / verifyCredential / verify):        *)
(* the validators of src/unnamed/part_002 and the verification pipeline    *)
(* built on them, with the signature suite and the status checker as       *)
(* external, nondeterministic collaborators.                               *)
(***************************************************************************)
EXTENDS Integers, Sequences, FiniteSets, TLC

\* ------------------------------------------------------------------------
\* Bounds of the model
\* ------------------------------------------------------------------------
\* largest number of credentials embedded in a presentation
MaxCreds == 2
\* instants are 0..MaxTime
MaxTime == 2

\* ------------------------------------------------------------------------
\* Encoding of JavaScript values
\* ------------------------------------------------------------------------
\* the value `undefined` of a string-valued property (a missing property)
Undefined == "undefined"

\* a property that may hold one value or an array of values:
\*   k = "undef" (property missing), "one" (v = <<value>>), "arr" (v = array)
Missing == [k |-> "undef", v |-> <<>>]
One(x) == [k |-> "one", v |-> <<x>>]
Arr(s) == [k |-> "arr", v |-> s]

\* a value inside such a property: a record (object), a string or null.
\*   empty: the object has no own keys; type: "absent" | "falsy" | "ok";
\*   id: Undefined or the id string (for k = "str": the string itself)
Obj(type, id) == [k |-> "rec", empty |-> FALSE, type |-> type, id |-> id]
EmptyObj == [k |-> "rec", empty |-> TRUE, type |-> "absent", id |-> Undefined]
StrVal(s) == [k |-> "str", empty |-> FALSE, type |-> "absent", id |-> s]
Null == [k |-> "null", empty |-> FALSE, type |-> "absent", id |-> Undefined]

\* a date-valued property:
\*   "absent" (missing), "empty" (""), "bad" (no dateTime inside),
\*   "loose" (contains a dateTime, but Date cannot parse the whole string),
\*   "multi" (an array of several dateTime strings),
\*   "date" (a dateTime string denoting instant t)
NoDate == [k |-> "absent", t |-> 0]
DateAt(t) == [k |-> "date", t |-> t]
DateOf(kind) == [k |-> kind, t |-> 0]

\* the strings `new URL(id)` parses (absolute URIs)
AbsoluteUris == {"did:example:issuer", "did:example:other",
                 "urn:uuid:c1", "urn:uuid:c2", "https://example.com/status/1"}

\* ------------------------------------------------------------------------
\* helpers.ts: contexts and versions
\* ------------------------------------------------------------------------
CREDENTIALS_CONTEXT_V1_URL == "https://www.w3.org/2018/credentials/v1"
CREDENTIALS_CONTEXT_V2_URL == "https://www.w3.org/ns/credentials/v2"

\* Map.get / Map.has miss
NoVersion == 0

\* mutant: both contexts are taken for version 1.0
credentialsContextUrlToVersion_Always1(url) ==
  IF url = CREDENTIALS_CONTEXT_V1_URL THEN 1
  ELSE IF url = CREDENTIALS_CONTEXT_V2_URL THEN 1
  ELSE NoVersion

credentialsContextUrlToVersion(url) ==
  IF url = CREDENTIALS_CONTEXT_V1_URL THEN 1
  ELSE IF url = CREDENTIALS_CONTEXT_V2_URL THEN 2
  ELSE NoVersion

credentialsVersionToContextUrl(version) ==
  IF version = 1 THEN CREDENTIALS_CONTEXT_V1_URL
  ELSE IF version = 2 THEN CREDENTIALS_CONTEXT_V2_URL
  ELSE Undefined

\* context[0] of a '@context' value: the first entry of an array, the first
\* character of a string (never a context URL), undefined otherwise
FirstContext(context) ==
  IF context.k = "arr" /\ Len(context.v) > 0 THEN context.v[1]
  ELSE IF context.k = "one" /\ context.v[1] # "" THEN "first-character"
  ELSE Undefined

\* error values: "ok" is normal completion, anything else is the thrown error
Ok == "ok"
ErrContext == "credentials context needs to be first in the list of contexts"
ErrTypeError == "TypeError"

\* the first error of a list of checks made in order (fail fast)
RECURSIVE FirstError(_)
FirstError(checks) ==
  IF checks = <<>> THEN Ok
  ELSE IF Head(checks) # Ok THEN Head(checks)
  ELSE FirstError(Tail(checks))

\* mutant: any first context is let through
assertCredentialContext_Any(context) == Ok

assertCredentialContext(context) ==
  IF context.k = "undef" THEN ErrTypeError
  ELSE IF credentialsContextUrlToVersion(FirstContext(context)) = NoVersion
       THEN ErrContext
  ELSE Ok

getContextVersion(credential) ==
  credentialsContextUrlToVersion(FirstContext(credential.context))

getContextForVersion(version) == credentialsVersionToContextUrl(version)

checkContextVersion(credential, version) ==
  getContextVersion(credential) = version

\* dateRegex.test(value): the pattern is not anchored
dateRegexTest(d) == d.k \in {"date", "loose", "multi"}

ErrDate(prop) == "must be a valid date: " \o prop

assertDateString(credential, prop) ==
  IF dateRegexTest(credential[prop]) THEN Ok ELSE ErrDate(prop)

\* ------------------------------------------------------------------------
\* part_002: validators of the legacy entry points
\* ------------------------------------------------------------------------
\* JavaScript truthiness of a value inside a property
FalsyValue(x) == x.k = "null" \/ (x.k = "str" /\ x.id = "")

\* JavaScript truthiness of a property (arrays and objects are truthy)
Truthy(p) == p.k = "arr" \/ (p.k = "one" /\ ~FalsyValue(p.v[1]))

\* jsonld.getValues(subject, property) == [].concat(subject[property] || [])
getValues(p) == IF p.k = "arr" THEN p.v ELSE IF Truthy(p) THEN p.v ELSE <<>>

\* the same for the string-valued property `type`
typeValues(p) ==
  IF p.k = "arr" THEN p.v
  ELSE IF p.k = "one" /\ p.v[1] # "" THEN p.v
  ELSE <<>>

Includes(s, x) == \E i \in 1..Len(s) : s[i] = x

isObject(x) == x.k = "rec"

_emptyObject(x) == ~isObject(x) \/ x.empty

ErrUri(propertyName) == "must be a URI: " \o propertyName

_validateUriId(id, propertyName) ==
  IF id \in AbsoluteUris THEN Ok ELSE ErrUri(propertyName)

_getId(x) == IF x.k = "str" THEN x.id ELSE IF x.k = "rec" THEN x.id ELSE Undefined

ErrMustBeObject(name) == "must be an object: " \o name
ErrEmptyObject(name) == "can not be an empty object: " \o name
ErrMustHaveType(name) == "must have property type: " \o name

_checkTypedObject(x, name) ==
  IF ~isObject(x) THEN ErrMustBeObject(name)
  ELSE IF _emptyObject(x) THEN ErrEmptyObject(name)
  ELSE IF x.type = "absent" THEN ErrMustHaveType(name)
  ELSE Ok

ErrSubjectRequired == "credentialSubject property is required"
ErrSubjectObject == "credentialSubject must be a non-null object"
ErrSubjectClaim == "credentialSubject must make a claim"

_checkCredentialSubject(subject) ==
  IF ~isObject(subject) THEN ErrSubjectObject
  ELSE IF _emptyObject(subject) THEN ErrSubjectClaim
  ELSE IF subject.id # Undefined /\ subject.id # ""
       THEN _validateUriId(subject.id, "credentialSubject.id")
  ELSE Ok

\* for an array every element is checked, then the array itself, which is
\* an object that is empty iff it has no elements and that has no id
_checkCredentialSubjects(credential) ==
  LET cs == credential.credentialSubject IN
  IF ~Truthy(cs) THEN ErrSubjectRequired
  ELSE IF cs.k = "arr"
       THEN FirstError(<<FirstError([i \in 1..Len(cs.v) |->
                                      _checkCredentialSubject(cs.v[i])]),
                         IF cs.v = <<>> THEN ErrSubjectClaim ELSE Ok>>)
  ELSE _checkCredentialSubject(cs.v[1])

mustHaveType == <<"proof", "credentialStatus", "termsOfUse", "evidence">>

ErrTypeRequired == "type property is required"
ErrTypeVC == "type must include VerifiableCredential"
ErrIssuerRequired == "issuer property is required"
ErrIssuanceDateRequired == "issuanceDate property is required"
ErrIssuanceDateOne == "issuanceDate property can only have one value"
ErrExpired == "Credential has expired"
ErrBeforeIssuanceDate == "The current date time is before the issuanceDate"
ErrAfterValidUntil == "The current date time is after validUntil"
ErrBeforeValidFrom == "The current date time is before validFrom"
ErrIssuerOne == "issuer property can only have one value"
ErrIssuerId == "issuer id is required"
ErrStatusType == "credentialStatus must include a type"

\* mutant: an expiry is never noticed
NowAfter_Never(now, d) == FALSE

\* mutant: a credential is not yet valid at the very instant it names
NowBefore_OrAt(now, d) == d.k = "date" /\ now <= d.t

\* now > new Date(value) and now < new Date(value); an unparsable value is
\* an invalid Date, which compares false both ways
NowAfter(now, d) == d.k = "date" /\ now > d.t
NowBefore(now, d) == d.k = "date" /\ now < d.t

\* mutant: the bounds are enforced whatever the mode
CheckDatesV1_BoundsAlways(credential, now, mode) ==
  FirstError(<<
    IF credential.issuanceDate.k \in {"absent", "empty"}
      THEN ErrIssuanceDateRequired ELSE Ok,
    assertDateString(credential, "issuanceDate"),
    IF credential.issuanceDate.k = "multi" THEN ErrIssuanceDateOne ELSE Ok,
    IF credential.expirationDate.k # "absent"
      THEN FirstError(<<
             assertDateString(credential, "expirationDate"),
             IF NowAfter(now, credential.expirationDate)
               THEN ErrExpired ELSE Ok>>)
      ELSE Ok,
    IF NowBefore(now, credential.issuanceDate)
      THEN ErrBeforeIssuanceDate ELSE Ok>>)

\* the version 1.0 block of _checkCredential
CheckDatesV1(credential, now, mode) ==
  FirstError(<<
    IF credential.issuanceDate.k \in {"absent", "empty"}
      THEN ErrIssuanceDateRequired ELSE Ok,
    assertDateString(credential, "issuanceDate"),
    IF credential.issuanceDate.k = "multi" THEN ErrIssuanceDateOne ELSE Ok,
    IF credential.expirationDate.k # "absent"
      THEN FirstError(<<
             assertDateString(credential, "expirationDate"),
             IF mode = "verify" /\ NowAfter(now, credential.expirationDate)
               THEN ErrExpired ELSE Ok>>)
      ELSE Ok,
    IF mode = "verify" /\ NowBefore(now, credential.issuanceDate)
      THEN ErrBeforeIssuanceDate ELSE Ok>>)

\* the version 2.0 block of _checkCredential
CheckDatesV2(credential, now, mode) ==
  FirstError(<<
    IF credential.validUntil.k \notin {"absent", "empty"}
      THEN FirstError(<<
             assertDateString(credential, "validUntil"),
             IF mode = "verify" /\ NowAfter(now, credential.validUntil)
               THEN ErrAfterValidUntil ELSE Ok>>)
      ELSE Ok,
    IF credential.validFrom.k \notin {"absent", "empty"}
      THEN FirstError(<<
             assertDateString(credential, "validFrom"),
             IF mode = "verify" /\ NowBefore(now, credential.validFrom)
               THEN ErrBeforeValidFrom ELSE Ok>>)
      ELSE Ok>>)

\* made only if 'issuer' in credential
CheckIssuerId(credential) ==
  LET issuer == IF credential.issuer.k = "one"
                  THEN _getId(credential.issuer.v[1]) ELSE Undefined IN
  IF credential.issuer.k = "undef" THEN Ok
  ELSE IF issuer = Undefined \/ issuer = "" THEN ErrIssuerId
  ELSE _validateUriId(issuer, "issuer")

CheckStatusEntry(cs) ==
  IF cs.k # "rec" THEN ErrTypeError
  ELSE FirstError(<<
    IF cs.id # Undefined THEN _validateUriId(cs.id, "credentialStatus.id")
                         ELSE Ok,
    IF cs.type # "ok" THEN ErrStatusType ELSE Ok>>)

CheckEvidenceEntry(evidence) ==
  LET evidenceId == _getId(evidence) IN
  IF evidenceId # Undefined /\ evidenceId # ""
    THEN _validateUriId(evidenceId, "evidence") ELSE Ok

CheckMustHaveType(credential, prop) ==
  LET value == credential[prop] IN
  IF value.k = "undef" THEN Ok
  ELSE FirstError([i \in 1..Len(value.v) |->
                     _checkTypedObject(value.v[i], prop)])

\* mutant: the issuer is looked at only after the evidence
_checkCredential_IssuerLate(credential, now, mode) ==
  FirstError(<<
    assertCredentialContext(credential.context),
    IF typeValues(credential.type) = <<>> /\ credential.type.k # "arr"
      THEN ErrTypeRequired ELSE Ok,
    IF ~Includes(typeValues(credential.type), "VerifiableCredential")
      THEN ErrTypeVC ELSE Ok,
    _checkCredentialSubjects(credential),
    IF checkContextVersion(credential, 1)
      THEN CheckDatesV1(credential, now, mode) ELSE Ok,
    IF checkContextVersion(credential, 2)
      THEN CheckDatesV2(credential, now, mode) ELSE Ok,
    FirstError([i \in 1..Len(getValues(credential.credentialStatus)) |->
      CheckStatusEntry(getValues(credential.credentialStatus)[i])]),
    FirstError([i \in 1..Len(getValues(credential.evidence)) |->
      CheckEvidenceEntry(getValues(credential.evidence)[i])]),
    IF ~Truthy(credential.issuer) THEN ErrIssuerRequired ELSE Ok,
    IF Len(getValues(credential.issuer)) > 1 THEN ErrIssuerOne ELSE Ok,
    CheckIssuerId(credential),
    FirstError([i \in 1..Len(mustHaveType) |->
      CheckMustHaveType(credential, mustHaveType[i])])>>)

_checkCredential(credential, now, mode) ==
  FirstError(<<
    assertCredentialContext(credential.context),
    IF typeValues(credential.type) = <<>> /\ credential.type.k # "arr"
      THEN ErrTypeRequired ELSE Ok,
    IF ~Includes(typeValues(credential.type), "VerifiableCredential")
      THEN ErrTypeVC ELSE Ok,
    _checkCredentialSubjects(credential),
    IF ~Truthy(credential.issuer) THEN ErrIssuerRequired ELSE Ok,
    IF checkContextVersion(credential, 1)
      THEN CheckDatesV1(credential, now, mode) ELSE Ok,
    IF checkContextVersion(credential, 2)
      THEN CheckDatesV2(credential, now, mode) ELSE Ok,
    IF Len(getValues(credential.issuer)) > 1 THEN ErrIssuerOne ELSE Ok,
    CheckIssuerId(credential),
    FirstError([i \in 1..Len(getValues(credential.credentialStatus)) |->
      CheckStatusEntry(getValues(credential.credentialStatus)[i])]),
    FirstError([i \in 1..Len(getValues(credential.evidence)) |->
      CheckEvidenceEntry(getValues(credential.evidence)[i])]),
    FirstError([i \in 1..Len(mustHaveType) |->
      CheckMustHaveType(credential, mustHaveType[i])])>>)

ErrTypeVP == "type must include VerifiablePresentation"

\* mutant: the type of the presentation is not looked at
_checkPresentation_NoTypeCheck(presentation) ==
  LET context == IF presentation.context.k = "arr"
                   THEN presentation.context
                 ELSE IF presentation.context.k = "one"
                   THEN Arr(presentation.context.v)
                 ELSE Arr(<<Undefined>>) IN
  assertCredentialContext(context)

\* a '@context' that is not an array is normalised to a one-element array
_checkPresentation(presentation) ==
  LET context == IF presentation.context.k = "arr"
                   THEN presentation.context
                 ELSE IF presentation.context.k = "one"
                   THEN Arr(presentation.context.v)
                 ELSE Arr(<<Undefined>>) IN
  FirstError(<<
    assertCredentialContext(context),
    IF ~Includes(typeValues(presentation.type), "VerifiablePresentation")
      THEN ErrTypeVP ELSE Ok>>)

\* ------------------------------------------------------------------------
\* lib/model: validators of the model-based entry points
\* ------------------------------------------------------------------------
\* the Error or TypeError an assertion throws for the value at `path`
ModelError(path, what) == path \o " " \o what

\* absence of a bound (`min` or `max` undefined)
NoBound == -1

\* XSD.assertAnyURI: a string that `new URL` parses
assertAnyURI(value, path) ==
  IF value = Undefined THEN ModelError(path, "must be a string")
  ELSE IF value \notin AbsoluteUris THEN ModelError(path, "Invalid URL")
  ELSE Ok

\* CredentialContextURIs and CredentialContextVersions, index by index
CredentialContextURIs ==
  <<CREDENTIALS_CONTEXT_V1_URL, CREDENTIALS_CONTEXT_V2_URL>>
CredentialContextVersions == <<1, 2>>

\* Array.prototype.indexOf, counted from 1; 0 stands for the -1 of a miss
IndexOf(s, x) ==
  IF Includes(s, x) THEN CHOOSE i \in 1..Len(s) :
                           s[i] = x /\ \A j \in 1..(i - 1) : s[j] # x
  ELSE 0

\* an array read at the index of a miss is undefined
getCredentialContextURI(value) ==
  IF IndexOf(CredentialContextVersions, value) = 0 THEN Undefined
  ELSE CredentialContextURIs[IndexOf(CredentialContextVersions, value)]

getCredentialContextVersion(value) ==
  IF IndexOf(CredentialContextURIs, value) = 0 THEN NoVersion
  ELSE CredentialContextVersions[IndexOf(CredentialContextURIs, value)]

\* CredentialContext.assertCredentialContext: an array that starts with a
\* credentials context URI
model_assertCredentialContext(context) ==
  IF context.k # "arr" THEN ModelError("@context", "must be a string")
  ELSE IF context.v = <<>> THEN ModelError("@context", "must not be empty")
  ELSE IF ~Includes(CredentialContextURIs, context.v[1])
    THEN ModelError("@context", "must start with a credential context URI")
  ELSE Ok

\* the version extractCredentialContextVersion returns; for a context that
\* assertCredentialContext turns down it throws, and this is no version
extractCredentialContextVersion(context) ==
  IF model_assertCredentialContext(context) = Ok
    THEN getCredentialContextVersion(context.v[1]) ELSE NoVersion

\* Credential.assertCredentialType: a string or a non-empty array of strings
\* that includes VerifiableCredential
assertCredentialType(type) ==
  IF type.k = "undef" THEN ModelError("type", "must be a string")
  ELSE IF type.k = "arr" /\ type.v = <<>>
    THEN ModelError("type", "must not be empty")
  ELSE IF ~Includes(type.v, "VerifiableCredential")
    THEN ModelError("type", "must include VerifiableCredential")
  ELSE Ok

\* JSON-LD.assertType on the `type` of an object: absent is not a string,
\* the falsy type is the empty string
assertType(x, path) ==
  IF x.type = "absent" THEN ModelError(path, "must be a string") ELSE Ok

\* Util.assertRecord, with or without nonEmpty
assertRecord(x, path, nonEmpty) ==
  IF x.k # "rec" THEN ModelError(path, "must be an object")
  ELSE IF nonEmpty /\ x.empty THEN ModelError(path, "must not be empty")
  ELSE Ok

\* the id of an issuer entry: the string itself, or the id of a record
assertCredentialIssuerEntry(x) ==
  IF x.k \in {"str", "rec"} THEN assertAnyURI(x.id, "issuer")
  ELSE ModelError("issuer", "must be a string")

\* mutant: the issuer may be left out
assertCredentialIssuer_Optional(issuer) ==
  IF issuer.k = "undef" THEN Ok
  ELSE IF issuer.k = "arr" /\ Len(issuer.v) > 1
    THEN ModelError("issuer", "must not contain multiple items")
  ELSE IF issuer.v = <<>> THEN ModelError("issuer", "must be a string")
  ELSE assertCredentialIssuerEntry(issuer.v[1])

\* CredentialIssuer.assertCredentialIssuer with allowRecord and allowArray
assertCredentialIssuer(issuer) ==
  IF issuer.k = "undef" THEN ModelError("issuer", "must be a string")
  ELSE IF issuer.k = "arr" /\ Len(issuer.v) > 1
    THEN ModelError("issuer", "must not contain multiple items")
  ELSE IF issuer.v = <<>> THEN ModelError("issuer", "must be a string")
  ELSE assertCredentialIssuerEntry(issuer.v[1])

\* the checks made for one value of a property, or for each element when
\* the property holds an array: a record (non-empty if so demanded), with a
\* type if so demanded, whose id, if looked at and present, is a URI
assertEntry(x, path, nonEmpty, typed, withId) ==
  FirstError(<<
    assertRecord(x, path, nonEmpty),
    IF typed THEN assertType(x, path) ELSE Ok,
    IF withId /\ x.id # Undefined THEN assertAnyURI(x.id, path \o ".id")
                                  ELSE Ok>>)

\* assertCredentialSubject, assertCredentialStatus, assertCredentialEvidence
\* and assertTypedObject with allowMultiple; nonEmptyArray is the nonEmpty
\* handed to assertArray
assertEntries(p, path, nonEmptyArray, nonEmpty, typed, withId) ==
  IF p.k = "undef" THEN ModelError(path, "must be an object")
  ELSE IF p.k = "arr" /\ nonEmptyArray /\ p.v = <<>>
    THEN ModelError(path, "must not be empty")
  ELSE FirstError([i \in 1..Len(p.v) |->
                     assertEntry(p.v[i], path, nonEmpty, typed, withId)])

\* XSD.assertDateTime: a string that matches the anchored DateTimePattern
assertDateTime(d, path) ==
  IF d.k \in {"absent", "multi"} THEN ModelError(path, "must be a string")
  ELSE IF d.k # "date" THEN ModelError(path, "must match DateString pattern")
  ELSE Ok

\* mutant: the bounds are never enforced
assertCredentialValidDate_NoBounds(d, path, min, max) ==
  assertDateTime(d, path)

\* Credential.assertCredentialValidDate
assertCredentialValidDate(d, path, min, max) ==
  FirstError(<<
    assertDateTime(d, path),
    IF min # NoBound /\ d.t < min
      THEN ModelError(path, "must be not be before min") ELSE Ok,
    IF max # NoBound /\ d.t > max
      THEN ModelError(path, "must be not be after max") ELSE Ok>>)

\* `_mode === 'verify' ? _now : undefined`
BoundIn(mode, now) == IF mode = "verify" THEN now ELSE NoBound

\* the switch on the context version in assertCredential
assertCredentialDates(credential, now, mode) ==
  IF extractCredentialContextVersion(credential.context) = 1
    THEN FirstError(<<
      assertCredentialValidDate(credential.issuanceDate, "issuanceDate",
                                NoBound, BoundIn(mode, now)),
      IF credential.expirationDate.k # "absent"
        THEN assertCredentialValidDate(credential.expirationDate,
               "expirationDate", BoundIn(mode, now), NoBound)
        ELSE Ok>>)
  ELSE IF extractCredentialContextVersion(credential.context) = 2
    THEN FirstError(<<
      IF credential.validFrom.k # "absent"
        THEN assertCredentialValidDate(credential.validFrom, "validFrom",
                                       NoBound, BoundIn(mode, now))
        ELSE Ok,
      IF credential.validUntil.k # "absent"
        THEN assertCredentialValidDate(credential.validUntil, "validUntil",
                                       BoundIn(mode, now), NoBound)
        ELSE Ok>>)
  ELSE Ok

\* Credential.assertCredential
assertCredential(credential, now, mode) ==
  FirstError(<<
    model_assertCredentialContext(credential.context),
    assertCredentialType(credential.type),
    IF credential.id # Undefined THEN assertAnyURI(credential.id, "id")
                                 ELSE Ok,
    assertCredentialIssuer(credential.issuer),
    assertEntries(credential.credentialSubject, "credentialSubject",
                  TRUE, TRUE, FALSE, TRUE),
    IF credential.credentialStatus.k # "undef"
      THEN assertEntries(credential.credentialStatus, "credentialStatus",
                         FALSE, FALSE, TRUE, TRUE)
      ELSE Ok,
    assertCredentialDates(credential, now, mode),
    IF credential.evidence.k # "undef"
      THEN assertEntries(credential.evidence, "evidence",
                         TRUE, TRUE, TRUE, TRUE)
      ELSE Ok,
    IF credential.termsOfUse.k # "undef"
      THEN assertEntries(credential.termsOfUse, "termsOfUse",
                         FALSE, TRUE, TRUE, FALSE)
      ELSE Ok,
    IF credential.proof.k # "undef"
      THEN assertEntries(credential.proof, "proof",
                         FALSE, TRUE, TRUE, FALSE)
      ELSE Ok>>)

\* ------------------------------------------------------------------------
\* part_002: results of the verification entry points
\* ------------------------------------------------------------------------
ErrCredentialRequired == "A credential property is required for verifying"
ErrPresentationRequired == "A presentation property is required for verifying"
ErrCheckStatus == "TypeError: A checkStatus function must be given"
ErrChallenge == "A challenge param is required for AuthenticationProofPurpose"
ErrSuiteUnverified == "suite: proof not verified"
ErrSuiteThrew == "suite: verify threw"
ErrStatusThrew == "checkStatus threw"

\* what the external suite and the external status checker can do
SuiteOutcomes == {"verified", "unverified", "throws"}
StatusOutcomes == {"verified", "unverified", "throws"}

\* the entry `results[0]` of a result: either what the suite reported for
\* the document, or the {credential, verified: false, error} of a catch block
ResultEntry(kind, document, verified, error) ==
  [kind |-> kind, document |-> document, verified |-> verified,
   error |-> error]

\* VerifyCredentialResult
CredentialResult(verified, error, results, statusResult) ==
  [verified |-> verified, error |-> error, results |-> results,
   statusResult |-> statusResult, credentialId |-> Undefined]

\* the value jsigs.verify resolves to for a document
SuiteResult(document, outcome) ==
  CredentialResult(outcome = "verified",
                   IF outcome = "verified" THEN Undefined
                                           ELSE ErrSuiteUnverified,
                   ResultEntry("suite", document, outcome = "verified",
                               IF outcome = "verified" THEN Undefined
                                                       ELSE ErrSuiteUnverified),
                   Undefined)

\* a settled promise: fulfilled with a value or rejected with an error
Fulfilled(value) == [state |-> "fulfilled", value |-> value, error |-> Undefined]
Rejected(error) ==
  [state |-> "rejected",
   value |-> CredentialResult(FALSE, error,
                              ResultEntry("none", Missing, FALSE, error),
                              Undefined),
   error |-> error]
Pending ==
  [state |-> "pending",
   value |-> CredentialResult(FALSE, Undefined,
                              ResultEntry("none", Missing, FALSE, Undefined),
                              Undefined),
   error |-> Undefined]

\* ------------------------------------------------------------------------
\* part_002: verifyCredential and _verifyCredential
\* ------------------------------------------------------------------------
\* mutant: the catch block rethrows instead of returning a result
verifyCredentialCatch_Rethrow(credential, error) == Rejected(error)

\* the catch block of verifyCredential: `return await` inside `try` brings
\* every throw and every rejection of _verifyCredential here
verifyCredentialCatch(credential, error) ==
  Fulfilled(CredentialResult(FALSE, error,
                             ResultEntry("caught", credential, FALSE, error),
                             Undefined))

\* mutant: the checkStatus requirement of lines 303-307 is dropped
CheckBeforeSuite_NoStatusRequirement(options) ==
  IF options.credential.k = "undef" THEN ErrCredentialRequired
  ELSE _checkCredential(options.credential.v[1], options.now, "verify")

\* the checks made before the suite is invoked (lines 259 and 299-307)
CheckBeforeSuite(options) ==
  IF options.credential.k = "undef" THEN ErrCredentialRequired
  ELSE LET credential == options.credential.v[1] IN
    FirstError(<<
      _checkCredential(credential, options.now, "verify"),
      IF Truthy(credential.credentialStatus)
         /\ options.checkStatus # "function"
        THEN ErrCheckStatus ELSE Ok>>)

\* options.purpose || new CredentialIssuancePurpose({controller})
CredentialPurpose(options) ==
  IF options.purpose # Undefined
    THEN [kind |-> options.purpose, controller |-> Undefined,
          domain |-> Undefined, challenge |-> Undefined]
    ELSE [kind |-> "CredentialIssuancePurpose",
          controller |-> options.controller,
          domain |-> Undefined, challenge |-> Undefined]

\* options.documentLoader || defaultDocumentLoader
ResolveLoader(options) ==
  IF options.documentLoader # Undefined THEN options.documentLoader
  ELSE "defaultDocumentLoader"

\* one invocation of jsigs.verify and how it settled ("pending" until then)
SuiteCall(kind, index, document, purpose, loader) ==
  [kind |-> kind, index |-> index, document |-> document,
   purpose |-> purpose, documentLoader |-> loader, outcome |-> "pending"]

\* one invocation of checkStatus and how it settled
StatusCall(index, credential) ==
  [index |-> index, credential |-> credential, outcome |-> "pending"]

\* the log with the pending call for position `index` settled as `out`
SettleCall(calls, index, out) ==
  [j \in 1..Len(calls) |->
     IF calls[j].index = index /\ calls[j].outcome = "pending"
       THEN [calls[j] EXCEPT !.outcome = out] ELSE calls[j]]

\* mutant: the status checker is consulted whatever the suite reported
StatusCheckNeeded_IgnoreVerified(result, options) ==
  /\ Truthy(options.credential.v[1].credentialStatus)
  /\ options.checkStatus # Undefined

\* after the suite verified the proof: is the status checker invoked?
StatusCheckNeeded(result, options) ==
  /\ result.verified
  /\ Truthy(options.credential.v[1].credentialStatus)
  /\ options.checkStatus # Undefined

\* mutant: a negative status result does not change verified
WithStatus_KeepVerified(result, outcome) ==
  [result EXCEPT !.statusResult = outcome]

\* lines 324-327: attach the status result, a negative one unverifies
WithStatus(result, outcome) ==
  [result EXCEPT !.statusResult = outcome,
                 !.verified = IF outcome # "verified" THEN FALSE ELSE @]

\* ------------------------------------------------------------------------
\* part_002: verify and _verifyPresentation
\* ------------------------------------------------------------------------
\* VerifyPresentationResult
PresentationResult(verified, error, results, proofResult, credResults) ==
  [verified |-> verified, error |-> error, results |-> results,
   presentationResult |-> proofResult,
   credentialResults |-> credResults]

\* the catch block of verify (the result has no credentialResults)
verifyCatch(presentation, error) ==
  Fulfilled(PresentationResult(FALSE, error,
              ResultEntry("caught", presentation, FALSE, error),
              Missing, <<>>))

\* line 214: `return _verifyPresentation(options)` hands the promise over
\* without awaiting it, so a rejection of it is the rejection of verify
verifyReturnPromise(presentation, promise) == promise

\* jsonld.getValues(presentation, 'verifiableCredential')
Credentials(presentation) ==
  IF presentation.verifiableCredential.k = "undef" THEN <<>>
  ELSE presentation.verifiableCredential.v

\* { ...options, credential, documentLoader }
EmbeddedOptions(options, credential) ==
  [options EXCEPT !.credential = One(credential),
                  !.documentLoader = ResolveLoader(options)]

\* mutant: the values are taken in the order in which the promises settled
GatherResults_BySettling(tasks, settled, credentials) ==
  [i \in 1..Len(tasks) |->
     [tasks[settled[i]].promise.value
        EXCEPT !.credentialId = credentials[i].id]]

\* Promise.all: the values in the order of the input array, whatever the
\* order in which the promises settled; then lines 475-477
GatherResults(tasks, settled, credentials) ==
  [i \in 1..Len(tasks) |->
     [tasks[i].promise.value EXCEPT !.credentialId = credentials[i].id]]

\* credentialResults.every(r => r.verified)
AllVerified(credentialResults) ==
  \A i \in 1..Len(credentialResults) : credentialResults[i].verified

\* mutant: a presentationPurpose does not lift the challenge requirement
ChallengeMissing_IgnorePurpose(options) ==
  options.challenge \in {Undefined, ""}

\* line 491
ChallengeMissing(options) ==
  options.presentationPurpose = Undefined
  /\ options.challenge \in {Undefined, ""}

\* mutant: the challenge is required before unsignedPresentation is looked at
ProofDecision_ChallengeFirst(options) ==
  IF ChallengeMissing(options) THEN "throw"
  ELSE IF options.unsignedPresentation THEN "return"
  ELSE "verify"

\* lines 485-494: what _verifyPresentation does after the credential batch
ProofDecision(options) ==
  IF options.unsignedPresentation THEN "return"
  ELSE IF ChallengeMissing(options) THEN "throw"
  ELSE "verify"

\* lines 496-497
PresentationPurpose(options) ==
  IF options.presentationPurpose # Undefined
    THEN [kind |-> options.presentationPurpose, controller |-> Undefined,
          domain |-> Undefined, challenge |-> Undefined]
    ELSE [kind |-> "AuthenticationProofPurpose",
          controller |-> options.controller,
          domain |-> options.domain, challenge |-> options.challenge]

\* mutant: the credential results do not enter the final verified
Aggregate_ProofOnly(verified, presentationResult, credentialResults) ==
  PresentationResult(presentationResult.verified,
                     presentationResult.error,
                     ResultEntry("none", Missing, FALSE, Undefined),
                     One(presentationResult), credentialResults)

\* lines 502-507
Aggregate(verified, presentationResult, credentialResults) ==
  PresentationResult(verified /\ presentationResult.verified,
                     presentationResult.error,
                     ResultEntry("none", Missing, FALSE, Undefined),
                     One(presentationResult), credentialResults)

\* line 487
UnsignedResult(presentation, verified, credentialResults) ==
  PresentationResult(verified, Undefined,
                     ResultEntry("presentation", presentation, verified,
                                 Undefined),
                     Missing, credentialResults)

\* ------------------------------------------------------------------------
\* Inputs of the calls
\* ------------------------------------------------------------------------
\* a version 2.0 credential that passes _checkCredential at every instant
BaseCredential ==
  [id |-> Undefined,
   context |-> Arr(<<CREDENTIALS_CONTEXT_V2_URL>>),
   type |-> Arr(<<"VerifiableCredential">>),
   credentialSubject |-> One(Obj("absent", "did:example:other")),
   issuer |-> One(StrVal("did:example:issuer")),
   issuanceDate |-> NoDate, expirationDate |-> NoDate,
   validFrom |-> NoDate, validUntil |-> NoDate,
   credentialStatus |-> Missing, evidence |-> Missing,
   termsOfUse |-> Missing, proof |-> One(Obj("ok", Undefined))]

\* version 1.0, valid exactly at instant 1
CredentialV1 ==
  [BaseCredential EXCEPT !.id = "urn:uuid:c1",
                         !.context = Arr(<<CREDENTIALS_CONTEXT_V1_URL>>),
                         !.issuanceDate = DateAt(1),
                         !.expirationDate = DateAt(1)]

\* version 2.0 with a credentialStatus, valid up to instant 1
CredentialWithStatus ==
  [BaseCredential EXCEPT !.id = "urn:uuid:c2",
                         !.validUntil = DateAt(1),
                         !.credentialStatus =
                           One(Obj("ok", "https://example.com/status/1"))]

\* structurally invalid: no issuer (and no id), with a credentialStatus
CredentialNoIssuer ==
  [BaseCredential EXCEPT !.issuer = Missing,
                         !.credentialStatus =
                           One(Obj("ok", "https://example.com/status/1"))]

\* the credentials handed to verifyCredential
CredentialPool == {CredentialV1, CredentialWithStatus, CredentialNoIssuer}

\* the credentials embedded in presentations
EmbeddedPool == {CredentialV1, CredentialWithStatus}

Instants == 0..MaxTime

NoOptions ==
  [op |-> "none", credential |-> Missing, presentation |-> Missing,
   purpose |-> Undefined, controller |-> Undefined,
   documentLoader |-> Undefined, checkStatus |-> Undefined, now |-> 0,
   unsignedPresentation |-> FALSE, presentationPurpose |-> Undefined,
   challenge |-> Undefined, domain |-> Undefined]

\* the options of a verifyCredential call
VerifyCredentialOptions ==
  {[NoOptions EXCEPT !.op = "verifyCredential", !.credential = c,
                     !.purpose = p, !.controller = ctl,
                     !.checkStatus = cs, !.now = now] :
     c \in {Missing} \cup {One(x) : x \in CredentialPool},
     p \in {Undefined, "CustomPurpose"},
     ctl \in {Undefined, "did:example:issuer"},
     cs \in {Undefined, "function"},
     now \in Instants}

Presentation(context, type, credentials) ==
  [id |-> Undefined, context |-> context, type |-> type,
   holder |-> Undefined, verifiableCredential |-> credentials]

CredentialLists ==
  {Missing} \cup
  {Arr(s) : s \in UNION {[1..n -> EmbeddedPool] : n \in 1..MaxCreds}}

\* well-formed shells, a string context, an unrecognized context, a wrong type
Presentations ==
  {Presentation(Arr(<<CREDENTIALS_CONTEXT_V2_URL>>),
                Arr(<<"VerifiablePresentation">>), l) : l \in CredentialLists}
  \cup
  {Presentation(One(CREDENTIALS_CONTEXT_V1_URL),
                One("VerifiablePresentation"), Missing),
   Presentation(Arr(<<"https://example.com/unknown">>),
                Arr(<<"VerifiablePresentation">>), Arr(<<CredentialV1>>)),
   Presentation(Arr(<<CREDENTIALS_CONTEXT_V2_URL>>),
                Arr(<<"Other">>), Arr(<<CredentialWithStatus>>))}

\* unsignedPresentation, presentationPurpose, challenge, controller, domain,
\* checkStatus
PresentationOptions ==
  {<<FALSE, Undefined, Undefined, Undefined, Undefined, "function">>,
   <<FALSE, Undefined, "", Undefined, Undefined, "function">>,
   <<FALSE, Undefined, "challenge-1", Undefined, Undefined, "function">>,
   <<FALSE, Undefined, "challenge-1", Undefined, Undefined, Undefined>>,
   <<FALSE, Undefined, "challenge-1", "did:example:holder", "example.com",
     "function">>,
   <<FALSE, "CustomPresentationPurpose", Undefined, Undefined, Undefined,
     "function">>,
   <<TRUE, Undefined, Undefined, Undefined, Undefined, "function">>}

\* the options of a verify call
VerifyOptions ==
  {[NoOptions EXCEPT !.op = "verify", !.presentation = p,
                     !.unsignedPresentation = a[1],
                     !.presentationPurpose = a[2], !.challenge = a[3],
                     !.controller = a[4], !.domain = a[5],
                     !.checkStatus = a[6], !.now = now] :
     p \in {Missing} \cup {One(x) : x \in Presentations},
     a \in PresentationOptions,
     now \in Instants}

\* ------------------------------------------------------------------------
\* State
\* ------------------------------------------------------------------------
VARIABLES
  pc,                 \* "idle", "credential", "batch", "presentationProof",
                      \* "signing" (issue), "done"
  options,            \* the options (arguments) of the call in progress
  tasks,              \* the verifyCredential calls in flight, by position
  settled,            \* positions of the settled tasks, in settling order
  suiteCalls,         \* the invocations of jsigs.verify and jsigs.sign, in order
  statusCalls,        \* the invocations of checkStatus, for each position
  verified,           \* local `verified` of _verifyPresentation
  credentialResults,  \* local `credentialResults` of _verifyPresentation
  outcome             \* the promise the entry point returned (for a
                      \* synchronous validator: how the call completed)

vars == <<pc, options, tasks, settled, suiteCalls, statusCalls, verified,
          credentialResults, outcome>>

Init ==
  /\ pc = "idle"
  /\ options = NoOptions
  /\ tasks = <<>>
  /\ settled = <<>>
  /\ suiteCalls = <<>>
  /\ statusCalls = <<>>
  /\ verified = TRUE
  /\ credentialResults = <<>>
  /\ outcome = Pending

\* a verifyCredential call up to its first await
StartTask(o) ==
  LET error == CheckBeforeSuite(o) IN
  IF error # Ok
    THEN [pc |-> "settled", credential |-> o.credential,
          promise |-> verifyCredentialCatch(o.credential, error),
          result |-> Pending.value]
    ELSE [pc |-> "suite", credential |-> o.credential,
          promise |-> Pending, result |-> Pending.value]

\* the options task i was called with
TaskOptions(o, i) ==
  IF o.op = "verifyCredential" THEN o
  ELSE EmbeddedOptions(o, Credentials(o.presentation.v[1])[i])

\* the positions, in order, of the tasks that are at `at`
Positions(ts, at) ==
  SelectSeq([i \in 1..Len(ts) |-> i], LAMBDA i : ts[i].pc = at)

\* the suite invocations made when the tasks ts of call o start in order
StartedSuiteCalls(ts, o) ==
  LET started == Positions(ts, "suite") IN
  [j \in 1..Len(started) |->
     SuiteCall("credential", started[j], ts[started[j]].credential,
               CredentialPurpose(TaskOptions(o, started[j])),
               ResolveLoader(TaskOptions(o, started[j])))]

\* ------------------------------------------------------------------------
\* Actions
\* ------------------------------------------------------------------------
\* verifyCredential(options), run up to its first await
CallVerifyCredential(o) ==
  /\ pc = "idle"
  /\ options' = o
  /\ LET task == StartTask(o) IN
       /\ tasks' = <<task>>
       /\ settled' = IF task.pc = "settled" THEN <<1>> ELSE <<>>
       /\ suiteCalls' = StartedSuiteCalls(<<task>>, o)
       /\ outcome' = task.promise
       /\ pc' = IF task.pc = "settled" THEN "done" ELSE "credential"
  /\ statusCalls' = <<(<<>>)>>
  /\ UNCHANGED <<verified, credentialResults>>

\* the rest of _verifyPresentation from line 485 on, with the locals
\* `verified` and `credentialResults` as given
ProofPhase(o, v, results) ==
  /\ verified' = v
  /\ credentialResults' = results
  /\ IF ProofDecision(o) = "return"
       THEN /\ outcome' = verifyReturnPromise(o.presentation,
                            Fulfilled(UnsignedResult(o.presentation, v, results)))
            /\ pc' = "done"
            /\ UNCHANGED suiteCalls
     ELSE IF ProofDecision(o) = "throw"
       THEN /\ outcome' = verifyReturnPromise(o.presentation,
                                              Rejected(ErrChallenge))
            /\ pc' = "done"
            /\ UNCHANGED suiteCalls
     ELSE /\ suiteCalls' = Append(suiteCalls,
                             SuiteCall("presentation", 0, o.presentation,
                                       PresentationPurpose(o),
                                       ResolveLoader(o)))
          /\ outcome' = Pending
          /\ pc' = "presentationProof"

\* verify(options), run up to its first await
CallVerify(o) ==
  /\ pc = "idle"
  /\ options' = o
  /\ IF o.presentation.k = "undef"
       THEN /\ outcome' = verifyCatch(o.presentation, ErrPresentationRequired)
            /\ pc' = "done"
            /\ UNCHANGED <<tasks, settled, suiteCalls, statusCalls, verified,
                           credentialResults>>
     ELSE IF _checkPresentation(o.presentation.v[1]) # Ok
       THEN /\ outcome' = verifyReturnPromise(o.presentation,
                            Rejected(_checkPresentation(o.presentation.v[1])))
            /\ pc' = "done"
            /\ UNCHANGED <<tasks, settled, suiteCalls, statusCalls, verified,
                           credentialResults>>
     ELSE LET credentials == Credentials(o.presentation.v[1]) IN
       IF Len(credentials) > 0
         THEN LET started == [i \in 1..Len(credentials) |->
                                StartTask(TaskOptions(o, i))] IN
              /\ tasks' = started
              /\ settled' = Positions(started, "settled")
              /\ suiteCalls' = StartedSuiteCalls(started, o)
              /\ statusCalls' = [i \in 1..Len(credentials) |-> <<>>]
              /\ outcome' = Pending
              /\ pc' = "batch"
              /\ UNCHANGED <<verified, credentialResults>>
         ELSE /\ UNCHANGED <<tasks, settled, statusCalls>>
              /\ ProofPhase(o, TRUE, <<>>)

\* task i settles with the given promise; a stand-alone verifyCredential
\* call is then complete
SettleTask(i, promise) ==
  /\ tasks' = [tasks EXCEPT ![i].pc = "settled", ![i].promise = promise]
  /\ settled' = Append(settled, i)
  /\ IF options.op = "verifyCredential"
       THEN pc' = "done" /\ outcome' = promise
       ELSE UNCHANGED <<pc, outcome>>

\* jsigs.verify settles for the credential of task i (lines 315-323)
SuiteReturns(i, out) ==
  /\ pc \in {"credential", "batch"}
  /\ i \in 1..Len(tasks)
  /\ tasks[i].pc = "suite"
  /\ suiteCalls' = SettleCall(suiteCalls, i, out)
  /\ UNCHANGED <<options, verified, credentialResults>>
  /\ IF out = "throws"
       THEN /\ SettleTask(i, verifyCredentialCatch(tasks[i].credential,
                                                   ErrSuiteThrew))
            /\ UNCHANGED statusCalls
     ELSE LET result == SuiteResult(tasks[i].credential, out) IN
       IF StatusCheckNeeded(result, TaskOptions(options, i))
         THEN /\ tasks' = [tasks EXCEPT ![i].pc = "status",
                                        ![i].result = result]
              /\ statusCalls' =
                   [statusCalls EXCEPT ![i] =
                      Append(@, StatusCall(i, tasks[i].credential))]
              /\ UNCHANGED <<pc, settled, outcome>>
         ELSE /\ SettleTask(i, Fulfilled(result))
              /\ UNCHANGED statusCalls

\* checkStatus settles for the credential of task i (lines 324-329)
StatusReturns(i, out) ==
  /\ pc \in {"credential", "batch"}
  /\ i \in 1..Len(tasks)
  /\ tasks[i].pc = "status"
  /\ statusCalls' = [statusCalls EXCEPT ![i] = SettleCall(@, i, out)]
  /\ UNCHANGED <<options, suiteCalls, verified, credentialResults>>
  /\ IF out = "throws"
       THEN SettleTask(i, verifyCredentialCatch(tasks[i].credential,
                                                ErrStatusThrew))
       ELSE SettleTask(i, Fulfilled(WithStatus(tasks[i].result, out)))

\* mutant: _verifyPresentation goes on as soon as one credential has settled
BatchSettles_AfterFirst ==
  /\ pc = "batch"
  /\ \E i \in 1..Len(tasks) : tasks[i].promise.state # "pending"
  /\ UNCHANGED <<options, tasks, settled, statusCalls>>
  /\ LET results == GatherResults(tasks, settled,
                       Credentials(options.presentation.v[1])) IN
     ProofPhase(options, AllVerified(results), results)

\* Promise.all settles: rejected as soon as one task is rejected, fulfilled
\* when all are fulfilled; _verifyPresentation continues at line 475
BatchSettles ==
  /\ pc = "batch"
  /\ \/ \E i \in 1..Len(tasks) : tasks[i].promise.state = "rejected"
     \/ \A i \in 1..Len(tasks) : tasks[i].promise.state = "fulfilled"
  /\ UNCHANGED <<options, tasks, settled, statusCalls>>
  /\ IF \E i \in 1..Len(tasks) : tasks[i].promise.state = "rejected"
       THEN /\ outcome' = verifyReturnPromise(options.presentation,
                 Rejected(tasks[CHOOSE i \in 1..Len(tasks) :
                            tasks[i].promise.state = "rejected"].promise.error))
            /\ pc' = "done"
            /\ UNCHANGED <<suiteCalls, verified, credentialResults>>
     ELSE LET results == GatherResults(tasks, settled,
                            Credentials(options.presentation.v[1])) IN
          ProofPhase(options, AllVerified(results), results)

\* jsigs.verify settles for the presentation (lines 499-507)
PresentationSuiteReturns(out) ==
  /\ pc = "presentationProof"
  /\ pc' = "done"
  /\ suiteCalls' = SettleCall(suiteCalls, 0, out)
  /\ outcome' = verifyReturnPromise(options.presentation,
       IF out = "throws" THEN Rejected(ErrSuiteThrew)
       ELSE Fulfilled(Aggregate(verified,
                                SuiteResult(options.presentation, out),
                                credentialResults)))
  /\ UNCHANGED <<options, tasks, settled, statusCalls, verified,
                 credentialResults>>

Next ==
  \/ \E o \in VerifyCredentialOptions : CallVerifyCredential(o)
  \/ \E o \in VerifyOptions : CallVerify(o)
  \/ \E i \in 1..Len(tasks), out \in SuiteOutcomes : SuiteReturns(i, out)
  \/ \E i \in 1..Len(tasks), out \in StatusOutcomes : StatusReturns(i, out)
  \/ BatchSettles
  \/ \E out \in SuiteOutcomes : PresentationSuiteReturns(out)

Spec == Init /\ [][Next]_vars

\* ------------------------------------------------------------------------
\* Properties
\* ------------------------------------------------------------------------
\* the outcome of the suite invocation for position i ("none" if the suite
\* was not invoked for it); position 0 is the presentation's own proof
SuiteOutcomeOf(i) ==
  IF \E j \in 1..Len(suiteCalls) : suiteCalls[j].index = i
    THEN suiteCalls[CHOOSE j \in 1..Len(suiteCalls) :
                      suiteCalls[j].index = i].outcome
    ELSE "none"

\* the outcome of the status check for position i ("none" if not invoked)
StatusOutcomeOf(i) ==
  IF statusCalls[i] # <<>> THEN statusCalls[i][1].outcome ELSE "none"

\* how often the status checker was invoked for position i
StatusCallCount(i) == Len(statusCalls[i])

\* the credential is present and its credentialStatus is truthy
HasCredentialStatus(credential) ==
  credential.k = "one" /\ Truthy(credential.v[1].credentialStatus)

\* a verify call whose presentation passed _checkPresentation
ShellAccepted ==
  /\ options.op = "verify"
  /\ options.presentation.k = "one"
  /\ _checkPresentation(options.presentation.v[1]) = Ok

\* the value is {verified: false, error, results: [{credential, verified:
\* false, error}]} for the given credential
IsCaughtResult(value, credential) ==
  /\ value.verified = FALSE
  /\ value.error \notin {Undefined, Ok}
  /\ value.results = ResultEntry("caught", credential, FALSE, value.error)
  /\ value.statusResult = Undefined

\* C1: verifyCredential never rejects; a stand-alone call that is done has
\* returned a result; and when the credential is missing, validation fails,
\* a required checkStatus is absent or the suite or the status checker
\* throws, the result is {verified: false, error, results: [{credential,
\* verified: false, error}]}.
C1_VerifyCredentialNeverFails ==
  /\ \A i \in 1..Len(tasks) :
       /\ tasks[i].promise.state # "rejected"
       /\ tasks[i].pc = "settled" => tasks[i].promise.state = "fulfilled"
       /\ ( /\ tasks[i].pc = "settled"
            /\ \/ CheckBeforeSuite(TaskOptions(options, i)) # Ok
               \/ SuiteOutcomeOf(i) = "throws"
               \/ StatusOutcomeOf(i) = "throws" )
          => IsCaughtResult(tasks[i].promise.value, tasks[i].credential)
  /\ (options.op = "verifyCredential" /\ pc = "done")
       => /\ outcome.state = "fulfilled"
          /\ outcome = tasks[1].promise

\* a stand-alone verifyCredential whose status checker threw has returned
C1_Witness ==
  /\ options.op = "verifyCredential"
  /\ pc = "done"
  /\ StatusOutcomeOf(1) = "throws"
  /\ outcome.state = "fulfilled"

\* C2: verify never rejects: when the presentation is missing, the shell
\* fails structural validation or a signed presentation has neither
\* challenge nor presentationPurpose, the call completes with a result whose
\* verified is false and whose error is the failure.
C2_VerifyNeverRejects ==
  ( /\ options.op = "verify"
    /\ pc = "done"
    /\ \/ options.presentation.k = "undef"
       \/ _checkPresentation(options.presentation.v[1]) # Ok
       \/ (~options.unsignedPresentation /\ ChallengeMissing(options)) )
  => /\ outcome.state = "fulfilled"
     /\ outcome.value.verified = FALSE
     /\ outcome.value.error \notin {Undefined, Ok}

\* C3: when the suite reports verified = false for a credential, the status
\* checker is never invoked for it and the suite's result is returned as is.
C3_NoStatusCheckAfterFailedProof ==
  \A i \in 1..Len(tasks) :
    SuiteOutcomeOf(i) = "unverified" =>
      /\ StatusCallCount(i) = 0
      /\ tasks[i].pc = "settled"
      /\ tasks[i].promise = Fulfilled(SuiteResult(tasks[i].credential,
                                                  "unverified"))

\* the suite rejected the proof of a credential that has a credentialStatus
\* while a checkStatus function was supplied
C3_Witness ==
  \E i \in 1..Len(tasks) :
    /\ SuiteOutcomeOf(i) = "unverified"
    /\ HasCredentialStatus(tasks[i].credential)
    /\ options.checkStatus = "function"
    /\ tasks[i].pc = "settled"

\* C4: when the suite verified the proof of a credential that has a
\* credentialStatus, the status checker is invoked exactly once; the final
\* verified is true iff the status result is verified; a returned status
\* result is attached as statusResult and leaves the suite's results as
\* they were.
C4_StatusDecidesVerified ==
  \A i \in 1..Len(tasks) :
    ( /\ SuiteOutcomeOf(i) = "verified"
      /\ HasCredentialStatus(tasks[i].credential) )
    => /\ StatusCallCount(i) = 1
       /\ tasks[i].pc = "settled" =>
            /\ tasks[i].promise.value.verified
                 <=> (StatusOutcomeOf(i) = "verified")
            /\ StatusOutcomeOf(i) \in {"verified", "unverified"} =>
                 /\ tasks[i].promise.value.statusResult = StatusOutcomeOf(i)
                 /\ tasks[i].promise.value.results =
                      SuiteResult(tasks[i].credential, "verified").results
                 /\ tasks[i].promise.value.error = Undefined

\* a credential verified by the suite whose status check came back negative
C4_Witness ==
  \E i \in 1..Len(tasks) :
    /\ SuiteOutcomeOf(i) = "verified"
    /\ StatusOutcomeOf(i) = "unverified"
    /\ tasks[i].pc = "settled"
    /\ ~tasks[i].promise.value.verified

\* C5: a credential with credentialStatus verified without a checkStatus
\* function: if it passes _checkCredential the result carries the checkStatus
\* TypeError, otherwise the validation error; in both cases neither the
\* suite nor a status checker is invoked for it.
C5_CheckStatusRequired ==
  \A i \in 1..Len(tasks) :
    ( /\ HasCredentialStatus(tasks[i].credential)
      /\ options.checkStatus # "function" )
    => /\ SuiteOutcomeOf(i) = "none"
       /\ StatusCallCount(i) = 0
       /\ tasks[i].pc = "settled"
       /\ IsCaughtResult(tasks[i].promise.value, tasks[i].credential)
       /\ tasks[i].promise.value.error =
            IF _checkCredential(tasks[i].credential.v[1], options.now,
                                "verify") = Ok
              THEN ErrCheckStatus
              ELSE _checkCredential(tasks[i].credential.v[1], options.now,
                                    "verify")

\* a valid credential with credentialStatus and no checkStatus function
C5_Witness ==
  \E i \in 1..Len(tasks) :
    /\ HasCredentialStatus(tasks[i].credential)
    /\ options.checkStatus = Undefined
    /\ _checkCredential(tasks[i].credential.v[1], options.now, "verify") = Ok
    /\ tasks[i].promise.value.error = ErrCheckStatus

\* the embedded credentials of the presentation being verified
Embedded == Credentials(options.presentation.v[1])

\* the credential batch of the verify call has completed
BatchDone ==
  /\ ShellAccepted
  /\ Len(Embedded) > 0
  /\ pc \in {"presentationProof", "done"}

\* C6: after the batch of n concurrent credential verifications, in
\* whatever order they settled, credentialResults has length n, its i-th
\* entry is the result of verifying the i-th embedded credential and carries
\* that credential's id as credentialId; the returned result holds the same
\* list.
C6_ResultsAlignedWithCredentials ==
  BatchDone =>
    /\ Len(credentialResults) = Len(Embedded)
    /\ \A i \in 1..Len(Embedded) :
         /\ credentialResults[i].credentialId = Embedded[i].id
         /\ credentialResults[i].results.document = One(Embedded[i])
         /\ credentialResults[i] =
              [tasks[i].promise.value EXCEPT !.credentialId = Embedded[i].id]
    /\ (pc = "done" /\ outcome.state = "fulfilled")
         => outcome.value.credentialResults = credentialResults

\* two different credentials, both handed to the suite, the second settled
\* before the first
C6_Witness ==
  /\ BatchDone
  /\ pc = "done"
  /\ outcome.state = "fulfilled"
  /\ Len(Embedded) = 2
  /\ Embedded[1] # Embedded[2]
  /\ SuiteOutcomeOf(1) # "none"
  /\ SuiteOutcomeOf(2) # "none"
  /\ settled = <<2, 1>>

\* C7: a signed presentation whose verification reached aggregation is
\* verified iff every embedded credential result is verified and the
\* presentation's own proof result is verified.
C7_SignedVerifiedIsConjunction ==
  ( /\ ShellAccepted
    /\ ~options.unsignedPresentation
    /\ pc = "done"
    /\ outcome.state = "fulfilled"
    /\ outcome.value.presentationResult.k = "one" )
  => /\ outcome.value.credentialResults = credentialResults
     /\ outcome.value.verified <=>
          /\ \A i \in 1..Len(credentialResults) :
               credentialResults[i].verified
          /\ outcome.value.presentationResult.v[1].verified

\* the presentation's own proof verified, one embedded credential did not
C7_Witness ==
  /\ ShellAccepted
  /\ ~options.unsignedPresentation
  /\ pc = "done"
  /\ outcome.state = "fulfilled"
  /\ SuiteOutcomeOf(0) = "verified"
  /\ Len(Embedded) = 2
  /\ credentialResults[1].verified
  /\ ~credentialResults[2].verified
  /\ ~outcome.value.verified

\* C8: a failing embedded credential never aborts the batch or the proof
\* phase: no credential verification rejects, the suite is invoked for
\* every embedded credential that passes validation, the call ends only
\* after every credential verification has settled, the suite is invoked
\* for the presentation's own proof when the presentation is signed (and a
\* challenge or presentationPurpose was supplied, see C10), and every
\* credential's error is retained in its own credentialResults entry.
C8_FailingCredentialDoesNotAbort ==
  (ShellAccepted /\ Len(Embedded) > 0) =>
    /\ \A i \in 1..Len(tasks) :
         /\ tasks[i].promise.state # "rejected"
         /\ CheckBeforeSuite(TaskOptions(options, i)) = Ok
              => SuiteOutcomeOf(i) # "none"
    /\ pc \in {"presentationProof", "done"} =>
         /\ Len(settled) = Len(Embedded)
         /\ (~options.unsignedPresentation /\ ~ChallengeMissing(options))
              => SuiteOutcomeOf(0) # "none"
         /\ \A i \in 1..Len(Embedded) :
              /\ credentialResults[i].error = tasks[i].promise.value.error
              /\ CheckBeforeSuite(TaskOptions(options, i)) # Ok
                   => credentialResults[i].error =
                        CheckBeforeSuite(TaskOptions(options, i))
              /\ SuiteOutcomeOf(i) = "unverified"
                   => credentialResults[i].error = ErrSuiteUnverified
    /\ (pc = "done" /\ outcome.state = "fulfilled")
         => outcome.value.credentialResults = credentialResults

\* a signed presentation: the first credential fails validation, the second
\* is verified by the suite, and the presentation's proof was checked too
C8_Witness ==
  /\ ShellAccepted
  /\ ~options.unsignedPresentation
  /\ pc = "done"
  /\ Len(Embedded) = 2
  /\ CheckBeforeSuite(TaskOptions(options, 1)) # Ok
  /\ SuiteOutcomeOf(2) = "verified"
  /\ SuiteOutcomeOf(0) \in {"verified", "unverified"}
  /\ outcome.state = "fulfilled"
  /\ outcome.value.credentialResults[1].error =
       CheckBeforeSuite(TaskOptions(options, 1))

\* C9: with unsignedPresentation set the suite is never invoked for the
\* presentation's own proof and no challenge is required: the call returns
\* verified equal to the conjunction of the embedded-credential results
\* (true when there are none) and no presentationResult.
C9_UnsignedSkipsProof ==
  (ShellAccepted /\ options.unsignedPresentation) =>
    /\ SuiteOutcomeOf(0) = "none"
    /\ pc # "presentationProof"
    /\ pc = "done" =>
         /\ outcome.state = "fulfilled"
         /\ outcome.value.error = Undefined
         /\ outcome.value.presentationResult = Missing
         /\ Len(outcome.value.credentialResults) = Len(Embedded)
         /\ outcome.value.verified <=>
              \A i \in 1..Len(Embedded) :
                outcome.value.credentialResults[i].verified

\* an unsigned presentation with credentials, verified without a challenge
C9_Witness ==
  /\ ShellAccepted
  /\ options.unsignedPresentation
  /\ options.challenge = Undefined
  /\ options.presentationPurpose = Undefined
  /\ Len(Embedded) > 0
  /\ pc = "done"
  /\ outcome.state = "fulfilled"
  /\ outcome.value.verified

\* C10: for a signed presentation, with neither presentationPurpose nor
\* challenge the verification fails with the 'challenge is required' error
\* and the suite is never invoked for the presentation's own proof; with a
\* presentationPurpose no challenge is required and that purpose is the one
\* passed to the suite.
C10_ChallengeOrPurpose ==
  (ShellAccepted /\ ~options.unsignedPresentation) =>
    /\ (options.presentationPurpose = Undefined
        /\ options.challenge = Undefined)
       => /\ SuiteOutcomeOf(0) = "none"
          /\ pc = "done" =>
               \/ outcome.state = "rejected" /\ outcome.error = ErrChallenge
               \/ /\ outcome.state = "fulfilled"
                  /\ ~outcome.value.verified
                  /\ outcome.value.error = ErrChallenge
    /\ options.presentationPurpose # Undefined
       => /\ outcome.error # ErrChallenge
          /\ pc \in {"presentationProof", "done"} =>
               \E j \in 1..Len(suiteCalls) :
                 /\ suiteCalls[j].kind = "presentation"
                 /\ suiteCalls[j].purpose.kind = options.presentationPurpose

\* a signed presentation verified with a presentationPurpose and no challenge
C10_Witness ==
  /\ ShellAccepted
  /\ ~options.unsignedPresentation
  /\ options.presentationPurpose # Undefined
  /\ options.challenge = Undefined
  /\ pc = "done"
  /\ outcome.state = "fulfilled"
  /\ outcome.value.verified

\* the first entry of the presentation's '@context' (the value itself when
\* it is not an array)
ShellFirstContext(presentation) ==
  IF presentation.context.k = "undef" THEN Undefined
  ELSE IF presentation.context.v = <<>> THEN Undefined
  ELSE presentation.context.v[1]

\* a verify call whose presentation shell is structurally invalid: its first
\* context is not a credentials context or its type lacks
\* VerifiablePresentation
ShellRejected ==
  /\ options.op = "verify"
  /\ options.presentation.k = "one"
  /\ \/ ShellFirstContext(options.presentation.v[1])
          \notin {CREDENTIALS_CONTEXT_V1_URL, CREDENTIALS_CONTEXT_V2_URL}
     \/ ~Includes(typeValues(options.presentation.v[1].type),
                  "VerifiablePresentation")

\* C11: a structural-validation failure of the presentation shell is
\* terminal: the call is over at once, no embedded credential is verified,
\* no status checker is called, the suite is never invoked, and the call
\* does not report verified.
C11_ShellFailureIsTerminal ==
  ShellRejected =>
    /\ pc = "done"
    /\ tasks = <<>>
    /\ settled = <<>>
    /\ suiteCalls = <<>>
    /\ statusCalls = <<>>
    /\ credentialResults = <<>>
    /\ outcome.state # "pending"
    /\ ~outcome.value.verified

\* a presentation of the wrong type that embeds a credential with a
\* credentialStatus was turned down
C11_Witness ==
  /\ ShellRejected
  /\ pc = "done"
  /\ ShellFirstContext(options.presentation.v[1]) = CREDENTIALS_CONTEXT_V2_URL
  /\ Len(Credentials(options.presentation.v[1])) > 0
  /\ HasCredentialStatus(One(Credentials(options.presentation.v[1])[1]))
  /\ options.checkStatus = "function"

\* ------------------------------------------------------------------------
\* The credential validators called on their own: _checkCredential of
\* part_002 and assertCredential of lib/model
\* ------------------------------------------------------------------------
\* the values of a date property: missing, '', not a dateTime, a dateTime
\* with text around it, and the dateTime of each instant
DateValues ==
  {NoDate, DateOf("empty"), DateOf("bad"), DateOf("loose")}
  \cup {DateAt(t) : t \in Instants}

\* well-formed credentials of both versions with every combination of
\* dates, and one without issuer
ValidatedCredentials ==
  {[CredentialV1 EXCEPT !.issuanceDate = a, !.expirationDate = b] :
     a \in DateValues, b \in DateValues}
  \cup {[BaseCredential EXCEPT !.validFrom = a, !.validUntil = b] :
     a \in DateValues, b \in DateValues}
  \cup {CredentialNoIssuer}

\* the arguments { credential, now, mode } of a validator call
ValidatorCalls ==
  {[op |-> "none", credential |-> c, now |-> now, mode |-> mode] :
     c \in ValidatedCredentials, now \in Instants,
     mode \in {"issue", "verify"}}

\* how a synchronous call completed: it returned, or it threw `error`
Completion(error) ==
  IF error = Ok THEN [state |-> "returned", error |-> Undefined]
  ELSE [state |-> "thrown", error |-> error]

InitValidate ==
  /\ pc = "idle"
  /\ options \in ValidatorCalls
  /\ tasks = <<>>
  /\ settled = <<>>
  /\ suiteCalls = <<>>
  /\ statusCalls = <<>>
  /\ verified = TRUE
  /\ credentialResults = <<>>
  /\ outcome = Completion(Ok)

\* _checkCredential({ credential, now, mode })
CallCheckCredential ==
  /\ pc = "idle"
  /\ pc' = "done"
  /\ options' = [options EXCEPT !.op = "_checkCredential"]
  /\ outcome' = Completion(_checkCredential(options.credential, options.now,
                                            options.mode))
  /\ UNCHANGED <<tasks, settled, suiteCalls, statusCalls, verified,
                 credentialResults>>

\* assertCredential(credential, { now, mode })
CallAssertCredential ==
  /\ pc = "idle"
  /\ pc' = "done"
  /\ options' = [options EXCEPT !.op = "assertCredential"]
  /\ outcome' = Completion(assertCredential(options.credential, options.now,
                                            options.mode))
  /\ UNCHANGED <<tasks, settled, suiteCalls, statusCalls, verified,
                 credentialResults>>

NextValidate == CallCheckCredential \/ CallAssertCredential

SpecValidate == InitValidate /\ [][NextValidate]_vars

\* a date property that is a dateTime denoting an instant
IsInstant(d) == d.k = "date"

\* a version 1.0 credential that is valid apart from its temporal bounds:
\* a format-valid issuanceDate and an absent or format-valid expirationDate
OtherwiseValidV1(c) ==
  /\ [c EXCEPT !.issuanceDate = NoDate, !.expirationDate = NoDate]
       = [CredentialV1 EXCEPT !.issuanceDate = NoDate,
                              !.expirationDate = NoDate]
  /\ IsInstant(c.issuanceDate)
  /\ c.expirationDate = NoDate \/ IsInstant(c.expirationDate)

\* a version 2.0 credential that is valid apart from its temporal bounds
OtherwiseValidV2(c) ==
  /\ [c EXCEPT !.validFrom = NoDate, !.validUntil = NoDate] = BaseCredential
  /\ c.validFrom = NoDate \/ IsInstant(c.validFrom)
  /\ c.validUntil = NoDate \/ IsInstant(c.validUntil)

\* a validator call in the given mode has completed
Validated(mode) ==
  /\ pc = "done"
  /\ options.op \in {"_checkCredential", "assertCredential"}
  /\ options.mode = mode

\* the 'expired' error of the validator that was called
ExpiredError ==
  IF options.op = "_checkCredential" THEN ErrExpired
  ELSE ModelError("expirationDate", "must be not be before min")

\* the 'not yet valid' error of the validator that was called
NotYetValidError ==
  IF options.op = "_checkCredential" THEN ErrBeforeIssuanceDate
  ELSE ModelError("issuanceDate", "must be not be after max")

\* now is after the expirationDate of the credential validated
NowAfterExpiration ==
  /\ IsInstant(options.credential.expirationDate)
  /\ options.now > options.credential.expirationDate.t

\* now is before the issuanceDate of the credential validated
NowBeforeIssuance == options.now < options.credential.issuanceDate.t

\* C12 as stated: verify-mode validation of an otherwise valid version 1.0
\* credential succeeds iff issuanceDate <= now and (expirationDate is absent
\* or now <= expirationDate); now after expirationDate fails with the
\* 'expired' error and now before issuanceDate with the 'not yet valid'
\* error.
C12_V1Window_AsStated ==
  (Validated("verify") /\ OtherwiseValidV1(options.credential)) =>
    /\ outcome.state = "returned"
         <=> (~NowBeforeIssuance /\ ~NowAfterExpiration)
    /\ NowAfterExpiration => outcome.error = ExpiredError
    /\ NowBeforeIssuance => outcome.error = NotYetValidError

\* C12 (amended): verify-mode validation of an otherwise valid version 1.0
\* credential succeeds iff issuanceDate <= now and (expirationDate is absent
\* or now <= expirationDate). When one bound is violated the error is that
\* bound's error. When both are (expirationDate < now < issuanceDate) only
\* the check made first reports: _checkCredential checks expirationDate
\* first and fails with 'expired', assertCredential checks issuanceDate
\* first and fails with 'not yet valid'.
C12_V1Window ==
  (Validated("verify") /\ OtherwiseValidV1(options.credential)) =>
    /\ outcome.state = "returned"
         <=> (~NowBeforeIssuance /\ ~NowAfterExpiration)
    /\ (NowAfterExpiration /\ ~NowBeforeIssuance)
         => outcome.error = ExpiredError
    /\ (NowBeforeIssuance /\ ~NowAfterExpiration)
         => outcome.error = NotYetValidError
    /\ (NowAfterExpiration /\ NowBeforeIssuance)
         => outcome.error = IF options.op = "_checkCredential"
                              THEN ExpiredError ELSE NotYetValidError

\* _checkCredential verified a credential between its expirationDate and
\* its issuanceDate and reported it expired
C12_Witness ==
  /\ Validated("verify")
  /\ OtherwiseValidV1(options.credential)
  /\ options.op = "_checkCredential"
  /\ NowAfterExpiration
  /\ NowBeforeIssuance
  /\ outcome.error = ErrExpired

\* C13: verify-mode validation of an otherwise valid version 2.0 credential
\* succeeds iff (validFrom is absent or validFrom <= now) and (validUntil
\* is absent or now <= validUntil); so with only validUntil set it succeeds
\* when now <= validUntil and fails when now > validUntil, and with neither
\* set it succeeds at every instant.
C13_V2Window ==
  (Validated("verify") /\ OtherwiseValidV2(options.credential)) =>
    LET validFrom == options.credential.validFrom
        validUntil == options.credential.validUntil IN
    /\ outcome.state = "returned"
         <=> /\ validFrom = NoDate \/ validFrom.t <= options.now
             /\ validUntil = NoDate \/ options.now <= validUntil.t
    /\ (validFrom = NoDate /\ validUntil = NoDate)
         => outcome.state = "returned"
    /\ (validFrom = NoDate /\ validUntil # NoDate)
         => (outcome.state = "thrown" <=> options.now > validUntil.t)

\* assertCredential turned down a credential with only validUntil set after
\* that instant
C13_Witness ==
  /\ Validated("verify")
  /\ OtherwiseValidV2(options.credential)
  /\ options.op = "assertCredential"
  /\ options.credential.validFrom = NoDate
  /\ IsInstant(options.credential.validUntil)
  /\ options.now > options.credential.validUntil.t
  /\ outcome.state = "thrown"

\* the outcome of the validator that was called, had it been called at
\* instant now
OutcomeAt(now) ==
  IF options.op = "_checkCredential"
    THEN Completion(_checkCredential(options.credential, now, options.mode))
    ELSE Completion(assertCredential(options.credential, now, options.mode))

\* C14: issue-mode validation enforces no temporal bound: its outcome is the
\* same at every instant, for every credential of either version, and a
\* credential whose dates are format-valid passes it although it has
\* expired or is not yet valid.
C14_IssueModeIgnoresNow ==
  Validated("issue") =>
    /\ \A now \in Instants : outcome = OutcomeAt(now)
    /\ outcome.error \notin {ErrExpired, ErrBeforeIssuanceDate,
                             ErrAfterValidUntil, ErrBeforeValidFrom}
    /\ ( \/ OtherwiseValidV1(options.credential)
         \/ OtherwiseValidV2(options.credential) )
       => outcome.state = "returned"

\* _checkCredential passed, in issue mode, a version 1.0 credential that
\* has expired
C14_Witness ==
  /\ Validated("issue")
  /\ options.op = "_checkCredential"
  /\ OtherwiseValidV1(options.credential)
  /\ NowAfterExpiration
  /\ outcome.state = "returned"

\* ------------------------------------------------------------------------
\* issue: the entry point of part_002 and the model-based one of part_005
\* ------------------------------------------------------------------------
\* the milliseconds of the instants a clock can show
MillisValues == {0, 1, 500, 999}

\* what `new Date()` can return: second s, millisecond ms
Clocks == [s : Instants, ms : MillisValues]

\* no `now` was given
NoClock == [s |-> 0 - 1, ms |-> 0]

Digit(n) == SubSeq("0123456789", n + 1, n + 1)

\* Date.prototype.toJSON up to the seconds, and in full (three digits of
\* milliseconds, then Z)
SecondsText(s) == "1970-01-01T00:00:0" \o Digit(s)
toJSON(clock) ==
  SecondsText(clock.s) \o "." \o Digit(clock.ms \div 100)
    \o Digit((clock.ms \div 10) % 10) \o Digit(clock.ms % 10) \o "Z"

\* mutant: one character too few is cut off
SliceSeconds_OneShort(text) == SubSeq(text, 1, Len(text) - 4) \o "Z"

\* part_002:113-114: `${now.slice(0, now.length - 5)}Z`
SliceSeconds(text) == SubSeq(text, 1, Len(text) - 5) \o "Z"

\* part_005:19: replace(/\.\d*(?=Z)/, ''), for a text that ends in Z
StripFraction(text) ==
  IF \E i \in 1..Len(text) : SubSeq(text, i, i) = "."
    THEN SubSeq(text, 1, (CHOOSE i \in 1..Len(text) :
                            SubSeq(text, i, i) = ".") - 1) \o "Z"
    ELSE text

\* the dateTime strings of second s: an optional fraction, an optional Z
DateTimeTexts(s) ==
  {SecondsText(s) \o f \o z :
     f \in {""} \cup {"." \o Digit(d) : d \in 0..9}
            \cup {SubSeq(toJSON([s |-> s, ms |-> ms]), 20, 23) :
                    ms \in MillisValues},
     z \in {"", "Z"}}

\* what the validators make of a text: the dateTime of an instant; a text
\* that only contains a dateTime, which the unanchored dateRegex accepts and
\* Date cannot parse; or no dateTime at all
ParseDateTime(text) ==
  IF \E s \in 0..9 : text \in DateTimeTexts(s)
    THEN [k |-> "date", t |-> CHOOSE s \in 0..9 : text \in DateTimeTexts(s),
          text |-> text]
  ELSE IF \E s \in 0..9 : /\ Len(text) >= Len(SecondsText(s))
                          /\ SubSeq(text, 1, Len(SecondsText(s)))
                               = SecondsText(s)
    THEN [k |-> "loose", t |-> 0, text |-> text]
  ELSE [k |-> "bad", t |-> 0, text |-> text]

\* the suite handed to issue: absent, or an object with or without a
\* verificationMethod and with or without the functions sign and canonize
IssueSuites ==
  {[present |-> FALSE, verificationMethod |-> FALSE, methods |-> FALSE]}
  \cup [present : {TRUE}, verificationMethod : BOOLEAN, methods : BOOLEAN]

\* credentials handed to issue: version 1.0 with every issuanceDate, version
\* 2.0, and both versions without issuer
IssueCredentials ==
  {[CredentialV1 EXCEPT !.issuanceDate = a, !.expirationDate = NoDate] :
     a \in DateValues}
  \cup {BaseCredential, CredentialNoIssuer,
        [CredentialV1 EXCEPT !.issuanceDate = NoDate, !.issuer = Missing]}

\* the arguments of an issue call; `given` keeps the credential as it was
\* handed over, `clock` what `new Date()` returned during the call
IssueOptions ==
  [op : {"none"},
   credential : {Missing} \cup {One(c) : c \in IssueCredentials},
   given : {Missing}, suite : IssueSuites,
   purpose : {Undefined, "CustomPurpose"},
   documentLoader : {Undefined, "customLoader"},
   now : {NoClock, [s |-> 1, ms |-> 500]}, clock : {NoClock}]

\* what the external signer can do
SignOutcomes == {"signed", "throws"}

\* part_002:105-107: the parameters issue requires, looked at in this order
IssueRequired(o) ==
  IF ~o.suite.present THEN "TypeError: suite parameter is required"
  ELSE IF ~o.suite.verificationMethod
    THEN "TypeError: suite.verificationMethod property is required"
  ELSE IF o.credential.k = "undef"
    THEN "TypeError: credential parameter is required"
  ELSE Ok

\* part_005:16-18: assertRecord(credential), assertLinkedDataSignature(suite)
\* and the assertCredentialContext inside extractCredentialContextVersion
ModelIssueRequired(o) ==
  IF o.credential.k = "undef" THEN ModelError("value", "must be an object")
  ELSE IF ~o.suite.present THEN ModelError("suite", "must be an object")
  ELSE IF ~o.suite.methods THEN ModelError("suite.sign", "must be a function")
  ELSE model_assertCredentialContext(o.credential.v[1].context)

\* mutant: the credential's id is rewritten along with the issuanceDate
WithIssuanceDate_AndId(credential, clock) ==
  IF checkContextVersion(credential, 1)
     /\ credential.issuanceDate.k \in {"absent", "empty"}
    THEN [credential EXCEPT
            !.issuanceDate = ParseDateTime(SliceSeconds(toJSON(clock))),
            !.id = "urn:uuid:c2"]
    ELSE credential

\* part_002:109-115: the credential after the defaulting of issuanceDate
WithIssuanceDate(credential, clock) ==
  IF checkContextVersion(credential, 1)
     /\ credential.issuanceDate.k \in {"absent", "empty"}
    THEN [credential EXCEPT
            !.issuanceDate = ParseDateTime(SliceSeconds(toJSON(clock)))]
    ELSE credential

\* part_005:18-21: the credential after Object.assign
ModelWithIssuanceDate(credential, now) ==
  IF extractCredentialContextVersion(credential.context) = 1
    THEN [credential EXCEPT
            !.issuanceDate = ParseDateTime(StripFraction(toJSON(now)))]
    ELSE credential

\* part_002:93: purpose = new CredentialIssuancePurpose()
IssuePurpose(o) ==
  IF o.purpose # Undefined
    THEN [kind |-> o.purpose, controller |-> Undefined,
          domain |-> Undefined, challenge |-> Undefined]
    ELSE [kind |-> "CredentialIssuancePurpose", controller |-> Undefined,
          domain |-> Undefined, challenge |-> Undefined]

\* part_005:23: purpose: options?.purpose
ModelIssuePurpose(o) ==
  [kind |-> o.purpose, controller |-> Undefined,
   domain |-> Undefined, challenge |-> Undefined]

\* mutant: the failure is returned as a value
IssueRejected_Returned(error) ==
  [state |-> "fulfilled", value |-> Missing, error |-> error]

\* the promise of an async function whose body threw
IssueRejected(error) ==
  [state |-> "rejected", value |-> Missing, error |-> error]

\* the rest of issue once `required` is known and the credential would
\* become `document`: validation in issue mode, then the call of jsigs.sign
IssueFrom(o, required, document, error, purpose, loader) ==
  /\ pc' = IF required = Ok /\ error = Ok THEN "signing" ELSE "done"
  /\ options' = IF required = Ok THEN [o EXCEPT !.credential = document]
                                 ELSE o
  /\ outcome' = IF required # Ok THEN IssueRejected(required)
                ELSE IF error # Ok THEN IssueRejected(error)
                ELSE Pending
  /\ suiteCalls' = IF required = Ok /\ error = Ok
                     THEN <<SuiteCall("sign", 0, document, purpose, loader)>>
                     ELSE <<>>
  /\ UNCHANGED <<tasks, settled, statusCalls, verified, credentialResults>>

\* issue of part_002:90-121, run up to its first await
CallIssue(a, clock) ==
  /\ pc = "idle"
  /\ LET o == [a EXCEPT !.op = "issue", !.given = a.credential,
                        !.clock = clock]
         required == IssueRequired(o)
         document == IF required = Ok
                       THEN One(WithIssuanceDate(o.credential.v[1], clock))
                       ELSE o.credential
         error == IF required = Ok
                    THEN _checkCredential(document.v[1],
                           IF o.now = NoClock THEN clock.s ELSE o.now.s,
                           "issue")
                    ELSE Ok IN
     IssueFrom(o, required, document, error, IssuePurpose(o),
               ResolveLoader(o))

\* issue of part_005:14-24, run up to its first await
CallModelIssue(a, clock) ==
  /\ pc = "idle"
  /\ LET o == [a EXCEPT !.op = "model.issue", !.given = a.credential,
                        !.clock = clock]
         now == IF o.now = NoClock THEN clock ELSE o.now
         required == ModelIssueRequired(o)
         document == IF required = Ok
                       THEN One(ModelWithIssuanceDate(o.credential.v[1], now))
                       ELSE o.credential
         error == IF required = Ok
                    THEN assertCredential(document.v[1], now.s, "issue")
                    ELSE Ok IN
     IssueFrom(o, required, document, error, ModelIssuePurpose(o),
               o.documentLoader)

\* jsigs.sign settles; issue returns what it resolved to
SignReturns(out) ==
  /\ pc = "signing"
  /\ pc' = "done"
  /\ suiteCalls' = SettleCall(suiteCalls, 0, out)
  /\ outcome' = IF out = "throws" THEN IssueRejected(ErrSuiteThrew)
                ELSE [state |-> "fulfilled", value |-> options.credential,
                      error |-> Undefined]
  /\ UNCHANGED <<options, tasks, settled, statusCalls, verified,
                 credentialResults>>

NextIssue ==
  \/ \E a \in IssueOptions, clock \in Clocks : CallIssue(a, clock)
  \/ \E a \in IssueOptions, clock \in Clocks : CallModelIssue(a, clock)
  \/ \E out \in SignOutcomes : SignReturns(out)

SpecIssue == Init /\ [][NextIssue]_vars

\* an issue call (of either implementation) has been made
Issuing == options.op \in {"issue", "model.issue"}

\* the parameters the implementation called requires were all there
IssueRequiredMet ==
  IF options.op = "issue" THEN IssueRequired(options) = Ok
  ELSE ModelIssueRequired(options) = Ok

\* the outcome of issue-mode validation of the credential as the call left it
IssueValidation ==
  IF options.op = "issue"
    THEN _checkCredential(options.credential.v[1], options.clock.s, "issue")
    ELSE assertCredential(options.credential.v[1], options.clock.s, "issue")

\* the two date values are the same kind of value for the same instant
SameDate(a, b) == a.k = b.k /\ a.t = b.t

\* the context version of the credential handed to issue
GivenVersion ==
  IF options.given.v[1].context.k = "arr"
     /\ options.given.v[1].context.v # <<>>
    THEN credentialsContextUrlToVersion(options.given.v[1].context.v[1])
    ELSE NoVersion

\* C15: issue sets issuanceDate only when the credential's context version
\* is 1.0 and issuanceDate is absent (missing or empty): a version 1.0
\* credential that carries an issuanceDate keeps it, a version 2.0
\* credential never receives one; under both implementations.
C15_IssuanceDateOnlyWhenAbsent ==
  (Issuing /\ options.given.k = "one") =>
    \/ SameDate(options.credential.v[1].issuanceDate,
                options.given.v[1].issuanceDate)
    \/ /\ GivenVersion = 1
       /\ options.given.v[1].issuanceDate.k \in {"absent", "empty"}

\* the issuanceDate of the credential was written by the call
Defaulted ==
  /\ Issuing
  /\ options.credential.k = "one"
  /\ "text" \in DOMAIN options.credential.v[1].issuanceDate

\* the instant the defaulted issuanceDate was taken from
TakenFrom ==
  IF options.op = "model.issue" /\ options.now # NoClock THEN options.now
  ELSE options.clock

\* C16: when issue defaults issuanceDate, the value is the instant it was
\* taken from truncated (not rounded) to whole seconds, written with no
\* fractional-second digits and a trailing Z; it is a dateTime of the strict
\* pattern, it is never later than that instant, and the credential passes
\* issue-mode validation of its dates (an otherwise valid one is handed to
\* the signer).
C16_DefaultedIssuanceDate ==
  Defaulted =>
    LET issuanceDate == options.credential.v[1].issuanceDate IN
    /\ issuanceDate.text = SecondsText(TakenFrom.s) \o "Z"
    /\ issuanceDate.text \in DateTimeTexts(TakenFrom.s)
    /\ issuanceDate.k = "date"
    /\ issuanceDate.t = TakenFrom.s
    /\ issuanceDate.t * 1000 <= TakenFrom.s * 1000 + TakenFrom.ms
    /\ IssueValidation \notin {ErrDate("issuanceDate"),
                               ErrIssuanceDateRequired, ErrIssuanceDateOne,
         ModelError("issuanceDate", "must be a string"),
         ModelError("issuanceDate", "must match DateString pattern")}
    /\ options.given.v[1].issuer # Missing => suiteCalls # <<>>

\* issue of part_002 defaulted the issuanceDate one millisecond before the
\* next second, and the credential was signed
C16_Witness ==
  /\ Defaulted
  /\ options.op = "issue"
  /\ options.clock.ms = 999
  /\ options.credential.v[1].issuanceDate.t = options.clock.s
  /\ pc = "done"
  /\ outcome.state = "fulfilled"

\* C17: issue invokes the signer only if the suite, the suite's
\* verificationMethod and the credential are present and the credential has
\* passed issue-mode validation; a missing suite, verificationMethod or
\* credential makes the call fail before the credential is touched.
C17_SignerOnlyAfterChecks ==
  Issuing =>
    /\ suiteCalls # <<>> =>
         /\ options.suite.present
         /\ options.suite.verificationMethod
         /\ options.given.k = "one"
         /\ IssueValidation = Ok
    /\ ( \/ ~options.suite.present
         \/ ~options.suite.verificationMethod
         \/ options.given.k = "undef" )
       => /\ suiteCalls = <<>>
          /\ options.credential = options.given
          /\ pc = "done"
          /\ outcome.state = "rejected"

\* C18: without a purpose the signer is handed a CredentialIssuancePurpose,
\* without a documentLoader the default loader; a purpose or loader the
\* caller supplied is handed over unchanged; under both implementations.
C18_DefaultPurposeAndLoader ==
  (Issuing /\ suiteCalls # <<>>) =>
    /\ suiteCalls[1].purpose.kind =
         IF options.purpose = Undefined THEN "CredentialIssuancePurpose"
                                        ELSE options.purpose
    /\ suiteCalls[1].documentLoader =
         IF options.documentLoader = Undefined THEN "defaultDocumentLoader"
                                               ELSE options.documentLoader

\* C19 as stated: when the credential fails schema or date-format
\* validation, issue completes with a structured {verified: false, error,
\* results} value instead of failing.
C19_IssueNeverFails_AsStated ==
  (Issuing /\ IssueRequiredMet /\ IssueValidation # Ok) =>
    outcome = verifyCredentialCatch(options.credential, IssueValidation)

\* C19 (amended): when the credential fails schema or date-format
\* validation, issue fails: the promise it returned is rejected with the
\* validation error, no structured result is produced and the signer is
\* never invoked.
C19_ValidationFailureRejects ==
  (Issuing /\ IssueRequiredMet /\ IssueValidation # Ok) =>
    /\ pc = "done"
    /\ outcome.state = "rejected"
    /\ outcome.error = IssueValidation
    /\ suiteCalls = <<>>

\* issue of part_002 was handed a version 1.0 credential whose issuanceDate
\* is no dateTime, and the call was rejected with the date error
C19_Witness ==
  /\ options.op = "issue"
  /\ IssueRequiredMet
  /\ options.given.v[1].issuanceDate.k = "bad"
  /\ outcome.state = "rejected"
  /\ outcome.error = ErrDate("issuanceDate")

\* ------------------------------------------------------------------------
\* CredentialIssuancePurpose.validate
\* ------------------------------------------------------------------------
\* the arguments of a validate call. base is what super.validate does: it
\* rejects, resolves to {valid: false, error}, or resolves to {valid: true,
\* controller} where controller is absent or an object with or without id.
\* document.issuer is missing, a string, an object, null or an array
PurposeCalls ==
  [op : {"none"},
   base : {[kind |-> "throws", controller |-> Missing],
           [kind |-> "invalid", controller |-> Missing]}
          \cup [kind : {"valid"},
                controller : {Missing, One(EmptyObj),
                              One(Obj("absent", "did:example:issuer")),
                              One(Obj("absent", "did:example:other"))}],
   issuer : {Missing, One(Null), One(StrVal("")), One(EmptyObj),
             One(StrVal("did:example:issuer")),
             One(StrVal("did:example:other")),
             One(Obj("absent", "did:example:issuer")),
             One(Obj("absent", "did:example:other")),
             Arr(<<>>), Arr(<<Null>>),
             Arr(<<StrVal("did:example:issuer")>>),
             Arr(<<Obj("absent", "did:example:issuer"),
                   StrVal("did:example:other")>>)}]

\* the { valid, error } validate resolves to
PurposeResult(valid, error) ==
  [state |-> "fulfilled", value |-> [valid |-> valid, error |-> error]]

\* mutant: the controller is not compared with the issuer
validate_AnyController(base, issuer) ==
  IF base.kind = "throws" THEN PurposeResult(FALSE, "super.validate threw")
  ELSE IF base.kind = "invalid"
    THEN PurposeResult(FALSE, "proof purpose not valid")
  ELSE IF getValues(issuer) = <<>>
    THEN PurposeResult(FALSE, "Credential issuer is required.")
  ELSE IF getValues(issuer)[1].k = "null" \/ base.controller.k = "undef"
    THEN PurposeResult(FALSE, ErrTypeError)
  ELSE PurposeResult(TRUE, Undefined)

\* CredentialIssuancePurpose.validate: every throw inside `try`, the
\* rejection of super.validate and the TypeError of reading `id` of null or
\* undefined included, is caught and returned
validate(base, issuer) ==
  IF base.kind = "throws" THEN PurposeResult(FALSE, "super.validate threw")
  ELSE IF base.kind = "invalid"
    THEN PurposeResult(FALSE, "proof purpose not valid")
  ELSE IF getValues(issuer) = <<>>
    THEN PurposeResult(FALSE, "Credential issuer is required.")
  ELSE IF getValues(issuer)[1].k = "null" \/ base.controller.k = "undef"
    THEN PurposeResult(FALSE, ErrTypeError)
  ELSE IF base.controller.v[1].id # getValues(issuer)[1].id
    THEN PurposeResult(FALSE,
           "Credential issuer must match the verification method controller.")
  ELSE PurposeResult(TRUE, Undefined)

InitPurpose ==
  /\ pc = "idle"
  /\ options \in PurposeCalls
  /\ tasks = <<>>
  /\ settled = <<>>
  /\ suiteCalls = <<>>
  /\ statusCalls = <<>>
  /\ verified = TRUE
  /\ credentialResults = <<>>
  /\ outcome = [state |-> "pending", value |-> [valid |-> FALSE,
                                                error |-> Undefined]]

\* purpose.validate(proof, { document, ... })
CallValidate ==
  /\ pc = "idle"
  /\ pc' = "done"
  /\ options' = [options EXCEPT !.op = "validate"]
  /\ outcome' = validate(options.base, options.issuer)
  /\ UNCHANGED <<tasks, settled, suiteCalls, statusCalls, verified,
                 credentialResults>>

NextPurpose == CallValidate

SpecPurpose == InitPurpose /\ [][NextPurpose]_vars

\* the first value of the document's issuer is a string or an object
HasIssuer ==
  /\ Truthy(options.issuer)
  /\ options.issuer.v # <<>>
  /\ options.issuer.v[1].k \in {"str", "rec"}

\* the base check was valid and confirmed a controller
HasController ==
  options.base.kind = "valid" /\ options.base.controller.k = "one"

assertPresentationType(type) ==
  IF type.k = "undef" THEN ModelError("type", "must be a string")
  ELSE IF type.k = "arr" /\ type.v = <<>>
    THEN ModelError("type", "must not be empty")
  ELSE IF ~Includes(type.v, "VerifiablePresentation")
    THEN ModelError("type", "must include VerifiablePresentation")
  ELSE Ok

\* Presentation.assertPresentation
assertPresentation(presentation) ==
  FirstError(<<
    model_assertCredentialContext(presentation.context),
    assertPresentationType(presentation.type),
    IF presentation.id # Undefined THEN assertAnyURI(presentation.id, "id")
                                   ELSE Ok>>)

\* '@context' values: each recognized context first, an unrecognized one
\* first (alone or before a recognized one), none, an empty array, and a
\* recognized context given as a string
ContextValues ==
  {Arr(<<CREDENTIALS_CONTEXT_V1_URL>>), Arr(<<CREDENTIALS_CONTEXT_V2_URL>>),
   Arr(<<CREDENTIALS_CONTEXT_V2_URL, "https://example.com/unknown">>),
   Arr(<<"https://example.com/unknown">>),
   Arr(<<"https://example.com/unknown", CREDENTIALS_CONTEXT_V2_URL>>),
   Arr(<<>>), Missing, One(CREDENTIALS_CONTEXT_V2_URL)}

TypedEntry == Obj("ok", Undefined)
UntypedEntry == Obj("absent", Undefined)
BadIdEntry == Obj("ok", "not a uri")

\* the values of a property whose entries must be typed objects
TypedValues ==
  {Missing, One(TypedEntry), One(UntypedEntry), One(EmptyObj),
   One(BadIdEntry), One(StrVal("text")), Arr(<<>>),
   Arr(<<TypedEntry, TypedEntry>>), Arr(<<TypedEntry, UntypedEntry>>),
   Arr(<<TypedEntry, BadIdEntry>>), Arr(<<TypedEntry, EmptyObj>>)}

\* the credentials that differ from `c` in one field
Vary(c) ==
  {[c EXCEPT !.context = v] : v \in ContextValues}
  \cup {[c EXCEPT !.id = v] : v \in {"urn:uuid:c1", "not a uri"}}
  \cup {[c EXCEPT !.type = v] : v \in
          {Missing, One(""), One("VerifiableCredential"), One("Other"),
           Arr(<<>>), Arr(<<"Other", "VerifiableCredential">>)}}
  \cup {[c EXCEPT !.credentialSubject = v] : v \in
          {Missing, One(Null), One(EmptyObj),
           One(StrVal("did:example:other")),
           One(Obj("absent", "not a uri")), Arr(<<>>),
           Arr(<<UntypedEntry, UntypedEntry>>),
           Arr(<<UntypedEntry, EmptyObj>>)}}
  \cup {[c EXCEPT !.issuer = v] : v \in
          {Missing, One(Null), One(StrVal("not a uri")), One(EmptyObj),
           One(Obj("absent", "did:example:issuer")),
           Arr(<<StrVal("did:example:issuer")>>),
           Arr(<<StrVal("did:example:issuer"),
                 StrVal("did:example:other")>>)}}
  \cup {[c EXCEPT ![f] = v] :
          f \in {"issuanceDate", "expirationDate", "validFrom", "validUntil"},
          v \in {NoDate, DateOf("bad"), DateAt(0), DateAt(MaxTime)}}
  \cup {[c EXCEPT ![f] = v] :
          f \in {"credentialStatus", "evidence", "termsOfUse", "proof"},
          v \in TypedValues}

\* the valid credentials of both versions with up to two fields replaced
StructuredCredentials ==
  UNION {Vary(d) : d \in UNION {Vary(c) : c \in {CredentialV1,
                                                 BaseCredential}}}

\* presentation shells: every context with every type
StructuredPresentations ==
  {[Presentation(context, type, Missing) EXCEPT !.id = id] :
     context \in ContextValues,
     type \in {Missing, One("VerifiablePresentation"), One("Other"),
               Arr(<<>>), Arr(<<"VerifiablePresentation", "Other">>)},
     id \in {Undefined, "urn:uuid:c1", "not a uri"}}

\* the documents at hand and the arguments { now, mode } of a credential
\* validator: every credential beside a valid shell, every shell beside a
\* valid credential
StructureCalls ==
  {[op |-> "none", credential |-> c, now |-> 1, mode |-> mode,
    presentation |-> Presentation(Arr(<<CREDENTIALS_CONTEXT_V2_URL>>),
                                  Arr(<<"VerifiablePresentation">>),
                                  Missing)] :
     c \in StructuredCredentials, mode \in {"issue", "verify"}}
  \cup {[op |-> "none", credential |-> BaseCredential, now |-> 1,
         mode |-> "verify", presentation |-> p] :
          p \in StructuredPresentations}

InitStructure ==
  /\ pc = "idle"
  /\ options \in StructureCalls
  /\ tasks = <<>>
  /\ settled = <<>>
  /\ suiteCalls = <<>>
  /\ statusCalls = <<>>
  /\ verified = TRUE
  /\ credentialResults = <<>>
  /\ outcome = Completion(Ok)

\* _checkPresentation(presentation)
CallCheckPresentation ==
  /\ pc = "idle"
  /\ pc' = "done"
  /\ options' = [options EXCEPT !.op = "_checkPresentation"]
  /\ outcome' = Completion(_checkPresentation(options.presentation))
  /\ UNCHANGED <<tasks, settled, suiteCalls, statusCalls, verified,
                 credentialResults>>

\* assertPresentation(presentation)
CallAssertPresentation ==
  /\ pc = "idle"
  /\ pc' = "done"
  /\ options' = [options EXCEPT !.op = "assertPresentation"]
  /\ outcome' = Completion(assertPresentation(options.presentation))
  /\ UNCHANGED <<tasks, settled, suiteCalls, statusCalls, verified,
                 credentialResults>>

NextStructure ==
  \/ CallCheckCredential
  \/ CallAssertCredential
  \/ CallCheckPresentation
  \/ CallAssertPresentation

SpecStructure == InitStructure /\ [][NextStructure]_vars

\* a call of one of the two credential validators has completed
CredentialValidated ==
  /\ pc = "done"
  /\ options.op \in {"_checkCredential", "assertCredential"}

\* the error a validator raises for a missing issuer
IssuerError ==
  IF options.op = "_checkCredential" THEN ErrIssuerRequired
  ELSE ModelError("issuer", "must be a string")

\* C21: a credential without an issuer fails credential validation, in
\* issue mode and in verify mode, in _checkCredential and in
\* assertCredential, for both context versions and whatever its other
\* fields are; when everything else is valid the error is the issuer error.
C21_MissingIssuerFails ==
  (CredentialValidated /\ options.credential.issuer.k = "undef") =>
    /\ outcome.state = "thrown"
    /\ [options.credential EXCEPT !.issuer = BaseCredential.issuer]
         \in {CredentialV1, BaseCredential}
       => outcome.error = IssuerError

\* assertCredential in issue mode turned down a version 1.0 credential
\* whose only defect is the missing issuer
C21_Witness ==
  /\ CredentialValidated
  /\ options.op = "assertCredential"
  /\ options.mode = "issue"
  /\ options.credential = [CredentialV1 EXCEPT !.issuer = Missing]
  /\ outcome.state = "thrown"
  /\ outcome.error = ModelError("issuer", "must be a string")

\* the document a completed structural check was made on
CheckedDocument ==
  IF options.op \in {"_checkCredential", "assertCredential"}
    THEN options.credential ELSE options.presentation

\* a structural check has completed on a document whose first context entry
\* is none of the two credentials contexts (no '@context' and an empty one
\* included)
UnrecognizedContextChecked ==
  /\ pc = "done"
  /\ options.op \in {"_checkCredential", "assertCredential",
                     "_checkPresentation", "assertPresentation"}
  /\ ShellFirstContext(CheckedDocument)
       \notin {CREDENTIALS_CONTEXT_V1_URL, CREDENTIALS_CONTEXT_V2_URL}

\* the errors of the context checks
ContextErrors ==
  {ErrContext, ErrTypeError,
   ModelError("@context", "must be a string"),
   ModelError("@context", "must not be empty"),
   ModelError("@context", "must start with a credential context URI")}

\* C22: a document whose first context entry is not one of the two
\* recognized credentials contexts fails structural validation, as a
\* credential and as a presentation, in the legacy and in the model-based
\* validators; the version looked up for it is no version, and the failure
\* is that of the context check, whatever the dates and the other fields
\* are: no version-specific check runs.
C22_UnrecognizedContextFails ==
  UnrecognizedContextChecked =>
    /\ outcome.state = "thrown"
    /\ outcome.error \in ContextErrors
    /\ getContextVersion(CheckedDocument) = NoVersion
    /\ getCredentialContextVersion(ShellFirstContext(CheckedDocument))
         = NoVersion
    /\ ~checkContextVersion(CheckedDocument, 1)
    /\ ~checkContextVersion(CheckedDocument, 2)

\* _checkCredential in verify mode turned down a credential without
\* '@context' whose validUntil lies in the past: the error is that of the
\* context check, not that of the version 2.0 window
C22_Witness ==
  /\ UnrecognizedContextChecked
  /\ options.op = "_checkCredential"
  /\ options.mode = "verify"
  /\ options.credential = [BaseCredential EXCEPT !.context = Missing,
                                                 !.validUntil = DateAt(0)]
  /\ outcome.state = "thrown"
  /\ outcome.error = ErrTypeError

\* ------------------------------------------------------------------------
\* The mappings between credentials contexts and versions, called on their
\* own: helpers.ts and lib/model/Credential.ts
\* ------------------------------------------------------------------------
\* the versions asked for: the two known ones and an unknown one
VersionValues == {1, 2, 3}

\* a '@context' and a version at hand
ContextCalls ==
  {[op |-> "none", context |-> c, version |-> v] :
     c \in ContextValues \cup {Arr(<<CREDENTIALS_CONTEXT_V1_URL,
                                     CREDENTIALS_CONTEXT_V2_URL>>),
                               Arr(<<"">>)},
     v \in VersionValues}

\* how a lookup completed: the value it returned, or the error it threw
Returned(value) == [state |-> "returned", error |-> Undefined, value |-> value]

InitContext ==
  /\ pc = "idle"
  /\ options \in ContextCalls
  /\ tasks = <<>>
  /\ settled = <<>>
  /\ suiteCalls = <<>>
  /\ statusCalls = <<>>
  /\ verified = TRUE
  /\ credentialResults = <<>>
  /\ outcome = Completion(Ok)

\* a lookup `op` was made, or made on the result of the lookup before it,
\* and completed as `result`
Lookup(from, to, op, result) ==
  /\ pc = from
  /\ pc' = to
  /\ options' = [options EXCEPT !.op = op]
  /\ outcome' = result
  /\ UNCHANGED <<tasks, settled, suiteCalls, statusCalls, verified,
                 credentialResults>>

\* getContextVersion({ credential })
CallGetContextVersion ==
  Lookup("idle", "version", "getContextVersion",
         Returned(getContextVersion([context |-> options.context])))

\* getCredentialContextVersion(context[0])
CallGetCredentialContextVersion ==
  Lookup("idle", "version", "getCredentialContextVersion",
         Returned(getCredentialContextVersion(FirstContext(options.context))))

\* extractCredentialContextVersion(context)
CallExtractCredentialContextVersion ==
  Lookup("idle", "version", "extractCredentialContextVersion",
         IF model_assertCredentialContext(options.context) # Ok
           THEN Completion(model_assertCredentialContext(options.context))
           ELSE Returned(extractCredentialContextVersion(options.context)))

\* checkContextVersion({ credential, version })
CallCheckContextVersion ==
  Lookup("idle", "done", "checkContextVersion",
         Returned(checkContextVersion([context |-> options.context],
                                      options.version)))

\* getContextForVersion({ version })
CallGetContextForVersion ==
  Lookup("idle", "context", "getContextForVersion",
         Returned(getContextForVersion(options.version)))

\* getCredentialContextURI(version)
CallGetCredentialContextURI ==
  Lookup("idle", "context", "getCredentialContextURI",
         Returned(getCredentialContextURI(options.version)))

\* the version a lookup returned is mapped back to its context, by the
\* mapping of the same implementation
MapVersionBack ==
  /\ pc = "version"
  /\ outcome.state = "returned"
  /\ Lookup("version", "done", options.op,
            Returned(IF options.op = "getContextVersion"
                       THEN getContextForVersion(outcome.value)
                       ELSE getCredentialContextURI(outcome.value)))

\* the context a lookup returned is mapped back to its version
MapContextBack ==
  /\ pc = "context"
  /\ Lookup("context", "done", options.op,
            Returned(IF options.op = "getContextForVersion"
                       THEN getContextVersion(
                              [context |-> Arr(<<outcome.value>>)])
                       ELSE getCredentialContextVersion(outcome.value)))

NextContext ==
  \/ CallGetContextVersion
  \/ CallGetCredentialContextVersion
  \/ CallExtractCredentialContextVersion
  \/ CallCheckContextVersion
  \/ CallGetContextForVersion
  \/ CallGetCredentialContextURI
  \/ MapVersionBack
  \/ MapContextBack

SpecContext == InitContext /\ [][NextContext]_vars

\* the first entry of the '@context' at hand is a credentials context
FirstRecognized ==
  FirstContext(options.context)
    \in {CREDENTIALS_CONTEXT_V1_URL, CREDENTIALS_CONTEXT_V2_URL}

\* the version that belongs to the first entry of the '@context' at hand
VersionOfFirst ==
  IF FirstContext(options.context) = CREDENTIALS_CONTEXT_V1_URL THEN 1 ELSE 2

VersionLookups ==
  {"getContextVersion", "getCredentialContextVersion",
   "extractCredentialContextVersion"}

ContextLookups == {"getContextForVersion", "getCredentialContextURI"}

\* the two directions of the mapping and the two round trips, for the
\* recognized contexts and the known versions; an unknown version has no
\* context
RecognizedRoundTrips ==
  /\ (pc = "version" /\ FirstRecognized) =>
        /\ outcome.state = "returned"
        /\ outcome.value = VersionOfFirst
  /\ (pc = "done" /\ options.op \in VersionLookups /\ FirstRecognized) =>
        outcome.value = FirstContext(options.context)
  /\ pc = "context" =>
        /\ outcome.value = CREDENTIALS_CONTEXT_V1_URL <=> options.version = 1
        /\ outcome.value = CREDENTIALS_CONTEXT_V2_URL <=> options.version = 2
        /\ options.version \notin {1, 2} => outcome.value = Undefined
  /\ (pc = "done" /\ options.op \in ContextLookups) =>
        outcome.value = IF options.version \in {1, 2} THEN options.version
                        ELSE NoVersion
  /\ (pc = "done" /\ options.op = "checkContextVersion") =>
        outcome.value = (FirstRecognized /\ VersionOfFirst = options.version)

\* C23 as stated: the mapping is a bijection between the two credentials
\* contexts and the versions 1.0 and 2.0 (each round trip returns what it
\* started from), and for any other first context every lookup returns
\* undefined.
C23_Bijection_AsStated ==
  /\ RecognizedRoundTrips
  /\ (pc = "version" /\ ~FirstRecognized) =>
        /\ outcome.state = "returned"
        /\ outcome.value = NoVersion

\* C23, amended: the mapping is a bijection between the two credentials
\* contexts and the versions 1.0 and 2.0 (each round trip returns what it
\* started from); for any other first context getContextVersion and
\* getCredentialContextVersion return undefined, which maps back to no
\* context, and extractCredentialContextVersion throws the error of
\* assertCredentialContext.
C23_Bijection ==
  /\ RecognizedRoundTrips
  /\ (pc = "version" /\ ~FirstRecognized) =>
        IF options.op = "extractCredentialContextVersion"
          THEN /\ outcome.state = "thrown"
               /\ outcome.error \in ContextErrors
          ELSE /\ outcome.state = "returned"
               /\ outcome.value = NoVersion
  /\ (pc = "done" /\ options.op \in VersionLookups /\ ~FirstRecognized) =>
        outcome.value = Undefined

\* the version 2.0 context was mapped to its version and back
C23_Witness ==
  /\ pc = "done"
  /\ options.op = "getContextVersion"
  /\ options.context = Arr(<<CREDENTIALS_CONTEXT_V2_URL,
                             "https://example.com/unknown">>)
  /\ outcome.value = CREDENTIALS_CONTEXT_V2_URL

\* the check assertCredential makes on a single value of a field that
\* allows several
SingleValueCheck(field, x) ==
  IF field = "credentialSubject"
    THEN assertEntry(x, field, TRUE, FALSE, TRUE)
  ELSE IF field = "credentialStatus"
    THEN assertEntry(x, field, FALSE, TRUE, TRUE)
  ELSE IF field = "evidence"
    THEN assertEntry(x, field, TRUE, TRUE, TRUE)
  ELSE assertEntry(x, field, TRUE, TRUE, FALSE)

\* the array held by `field` is not empty and each of its elements passes
\* the single-value check
ArrayAccepted(field) ==
  LET value == options.credential[field] IN
  /\ value.v # <<>>
  /\ \A i \in 1..Len(value.v) : SingleValueCheck(field, value.v[i]) = Ok

MultipleFields ==
  {"credentialSubject", "credentialStatus", "evidence", "termsOfUse", "proof"}

\* C24: every 'allow multiple' validator of assertCredential
\* (credentialSubject, credentialStatus, evidence, termsOfUse, proof, type)
\* rejects an empty array and applies the single-value check to each
\* element: a credential is accepted only if each array these fields hold
\* is non-empty and each of its elements passes.
C24_ArraysNonEmptyAndElementwise ==
  (pc = "done" /\ options.op = "assertCredential"
               /\ outcome.state = "returned") =>
    /\ \A field \in MultipleFields :
         options.credential[field].k = "arr" => ArrayAccepted(field)
    /\ options.credential.type.v # <<>>

\* the checks of _checkCredential by the place the claim gives them, each
\* made on its own on the credential validated: 1 context, 2 type presence,
\* 3 type sentinel, 4 credentialSubject, 5 issuer presence, 6 dates of the
\* version, 7 issuer cardinality, 8 issuer URI, 9 credentialStatus,
\* 10 evidence, 11 typed-object properties
CheckAlone(place) ==
  LET c == options.credential IN
  CASE place = 1 -> assertCredentialContext(c.context)
    [] place = 2 -> IF c.type.k = "undef" \/ c.type = One("")
                      THEN ErrTypeRequired ELSE Ok
    [] place = 3 -> IF ~Includes(typeValues(c.type), "VerifiableCredential")
                      THEN ErrTypeVC ELSE Ok
    [] place = 4 -> _checkCredentialSubjects(c)
    [] place = 5 -> IF ~Truthy(c.issuer) THEN ErrIssuerRequired ELSE Ok
    [] place = 6 -> IF checkContextVersion(c, 1)
                      THEN CheckDatesV1(c, options.now, options.mode)
                    ELSE IF checkContextVersion(c, 2)
                      THEN CheckDatesV2(c, options.now, options.mode)
                    ELSE Ok
    [] place = 7 -> IF Len(getValues(c.issuer)) > 1 THEN ErrIssuerOne ELSE Ok
    [] place = 8 -> CheckIssuerId(c)
    [] place = 9 -> FirstError([i \in 1..Len(getValues(c.credentialStatus))
                      |-> CheckStatusEntry(getValues(c.credentialStatus)[i])])
    [] place = 10 -> FirstError([i \in 1..Len(getValues(c.evidence))
                       |-> CheckEvidenceEntry(getValues(c.evidence)[i])])
    [] place = 11 -> FirstError([i \in 1..Len(mustHaveType) |->
                       CheckMustHaveType(c, mustHaveType[i])])

\* the places whose check fails on the credential validated
FailingPlaces == {place \in 1..11 : CheckAlone(place) # Ok}

\* the place of the check an error message belongs to (a TypeError is
\* that of reading context[0] when there is no '@context', and that of
\* `'id' in cs` otherwise)
PlaceOf(error) ==
  IF error = ErrContext THEN 1
  ELSE IF error = ErrTypeError
    THEN IF options.credential.context.k = "undef" THEN 1 ELSE 9
  ELSE IF error = ErrTypeRequired THEN 2
  ELSE IF error = ErrTypeVC THEN 3
  ELSE IF error \in {ErrSubjectRequired, ErrSubjectObject, ErrSubjectClaim,
                     ErrUri("credentialSubject.id")} THEN 4
  ELSE IF error = ErrIssuerRequired THEN 5
  ELSE IF error \in {ErrIssuanceDateRequired, ErrIssuanceDateOne, ErrExpired,
                     ErrBeforeIssuanceDate, ErrAfterValidUntil,
                     ErrBeforeValidFrom, ErrDate("issuanceDate"),
                     ErrDate("expirationDate"), ErrDate("validFrom"),
                     ErrDate("validUntil")} THEN 6
  ELSE IF error = ErrIssuerOne THEN 7
  ELSE IF error \in {ErrIssuerId, ErrUri("issuer")} THEN 8
  ELSE IF error \in {ErrStatusType, ErrUri("credentialStatus.id")} THEN 9
  ELSE IF error = ErrUri("evidence") THEN 10
  ELSE 11

\* C25: _checkCredential fails fast in the order context, type presence,
\* type sentinel, credentialSubject, issuer presence, dates of the version,
\* issuer cardinality, issuer URI, credentialStatus, evidence, typed-object
\* properties: it returns iff no check fails, and otherwise throws the one
\* error of the earliest failing check, whatever later checks would have
\* found; in version 1.0 an expired credential is reported as expired even
\* if its issuanceDate lies in the future.
C25_FailFastOrder ==
  (pc = "done" /\ options.op = "_checkCredential") =>
    /\ outcome.state = "returned" <=> FailingPlaces = {}
    /\ outcome.state = "thrown" =>
         /\ PlaceOf(outcome.error) \in FailingPlaces
         /\ \A place \in FailingPlaces : PlaceOf(outcome.error) <= place
         /\ outcome.error = CheckAlone(PlaceOf(outcome.error))
    /\ ( /\ FailingPlaces \cap 1..5 = {}
         /\ checkContextVersion(options.credential, 1)
         /\ options.mode = "verify"
         /\ NowAfter(options.now, options.credential.expirationDate)
         /\ NowBefore(options.now, options.credential.issuanceDate) )
       => outcome.error = ErrExpired

\* a credential without issuer whose evidence has an id that is no URI:
\* the issuer error is the one reported
C25_Witness ==
  /\ pc = "done"
  /\ options.op = "_checkCredential"
  /\ options.credential =
       [CredentialV1 EXCEPT !.issuer = Missing,
                            !.evidence = One(BadIdEntry)]
  /\ FailingPlaces = {5, 10}
  /\ outcome.state = "thrown"
  /\ outcome.error = ErrIssuerRequired

\* ------------------------------------------------------------------------
\* The entry points that take a caller's document: verifyCredential, verify
\* and the two issue implementations
\* ------------------------------------------------------------------------
NextCore == Next \/ NextIssue

SpecCore == Init /\ [][NextCore]_vars

\* once a call has begun, the caller's arguments, the documents among them,
\* stay as they are
ArgumentsKept == pc # "idle" => options' = options

\* the documents the suite and the status checker were handed are the
\* caller's: its credential, its presentation or a credential embedded in it
CallersDocumentsSeen ==
  (options.op \in {"verifyCredential", "verify"}) =>
    /\ \A j \in 1..Len(suiteCalls) :
         IF suiteCalls[j].kind = "presentation"
           THEN suiteCalls[j].document = options.presentation
         ELSE IF options.op = "verifyCredential"
           THEN suiteCalls[j].document = options.credential
         ELSE suiteCalls[j].document =
                One(Credentials(options.presentation.v[1])
                      [suiteCalls[j].index])
    /\ \A i \in 1..Len(tasks) :
         tasks[i].credential = TaskOptions(options, i).credential

\* issue left the credential as it was handed over, but for issuanceDate,
\* and what it validated and had signed is the credential as it left it
IssueSetsIssuanceDateOnly ==
  (Issuing /\ options.given.k = "one") =>
    /\ options.credential.k = "one"
    /\ [options.credential.v[1] EXCEPT
          !.issuanceDate = options.given.v[1].issuanceDate]
         = options.given.v[1]
    /\ \A j \in 1..Len(suiteCalls) :
         suiteCalls[j].document = options.credential

\* C26: verification never modifies its input documents: during and after
\* any call of verifyCredential or verify the credential and the
\* presentation, embedded credentials included, are what the caller passed,
\* and they are what the suite is handed; the only change the core makes to
\* a caller's document is issue setting issuanceDate, in its first step,
\* before validation and signing.
C26_DocumentsNotModified ==
  /\ [][ArgumentsKept]_vars
  /\ [](CallersDocumentsSeen /\ IssueSetsIssuanceDateOnly)

\* a verify call on a presentation with two embedded credentials has come
\* to its end with every suite and status call made
C26_Witness ==
  /\ options.op = "verify"
  /\ pc = "done"
  /\ options.presentation.k = "one"
  /\ Len(Credentials(options.presentation.v[1])) = 2
  /\ Len(suiteCalls) = 3
  /\ \E i \in 1..2 : statusCalls[i] # <<>>
  /\ outcome.state = "fulfilled"

\* ------------------------------------------------------------------------
\* createPresentation of part_002, called on its own
\* ------------------------------------------------------------------------
\* version 1.0, not yet valid before instant MaxTime
CredentialLater ==
  [CredentialV1 EXCEPT !.issuanceDate = DateAt(MaxTime),
                       !.expirationDate = NoDate]

\* the credentials handed to createPresentation
PresentedPool ==
  {CredentialV1, CredentialWithStatus, CredentialNoIssuer, CredentialLater}

\* the arguments { verifiableCredential, id, holder, now, version }; no
\* version is the default, 2.0
CreateOptions ==
  [op : {"none"},
   verifiableCredential :
     {Missing, Arr(<<>>)}
     \cup {One(c) : c \in PresentedPool}
     \cup {Arr(s) : s \in UNION {[1..n -> PresentedPool] : n \in 1..MaxCreds}},
   id : {Undefined, "", "urn:uuid:c1"},
   holder : {Undefined, "did:example:other"},
   now : Instants,
   version : {NoVersion, 1, 2, 3}]

\* [].concat(verifiableCredential)
Concat(p) == p.v

\* the presentation createPresentation builds
CreatedPresentation(a) ==
  [id |-> IF a.id = "" THEN Undefined ELSE a.id,
   context |-> Arr(<<getContextForVersion(IF a.version = NoVersion
                                            THEN 2 ELSE a.version)>>),
   type |-> Arr(<<"VerifiablePresentation">>),
   holder |-> a.holder,
   verifiableCredential |-> IF a.verifiableCredential.k # "undef"
                              THEN Arr(Concat(a.verifiableCredential))
                              ELSE Missing]

\* how createPresentation completes: the first credential that fails
\* _checkCredential (in verify mode) makes it throw, then the shell is
\* checked
createPresentation(a) ==
  LET credentials == IF a.verifiableCredential.k # "undef"
                       THEN Concat(a.verifiableCredential) ELSE <<>>
      error == FirstError(<<
        FirstError([i \in 1..Len(credentials) |->
                      _checkCredential(credentials[i], a.now, "verify")]),
        _checkPresentation(CreatedPresentation(a))>>) IN
  IF error # Ok THEN Completion(error)
  ELSE Returned(CreatedPresentation(a))

InitCreate ==
  /\ pc = "idle"
  /\ options \in CreateOptions
  /\ tasks = <<>>
  /\ settled = <<>>
  /\ suiteCalls = <<>>
  /\ statusCalls = <<>>
  /\ verified = TRUE
  /\ credentialResults = <<>>
  /\ outcome = Completion(Ok)

CallCreatePresentation ==
  /\ pc = "idle"
  /\ pc' = "done"
  /\ options' = [options EXCEPT !.op = "createPresentation"]
  /\ outcome' = createPresentation(options)
  /\ UNCHANGED <<tasks, settled, suiteCalls, statusCalls, verified,
                 credentialResults>>

NextCreate == CallCreatePresentation

SpecCreate == InitCreate /\ [][NextCreate]_vars

\* the verifiableCredential parameter was supplied
WasSupplied == options.verifiableCredential.k # "undef"

\* the credentials supplied to createPresentation, in input order
Supplied == options.verifiableCredential.v

\* the context of the version asked for (2.0 if none was), if it has one
RequestedContext ==
  IF options.version = 1 THEN CREDENTIALS_CONTEXT_V1_URL
  ELSE IF options.version \in {NoVersion, 2} THEN CREDENTIALS_CONTEXT_V2_URL
  ELSE Undefined

\* what holds of createPresentation whether or not the parameter was
\* supplied: a failing credential or an unknown version makes it throw, and
\* what it returns has the requested context first, the type
\* VerifiablePresentation and the supplied credentials in input order
CreatedAsRequested ==
  /\ (\E i \in 1..Len(Supplied) :
        _checkCredential(Supplied[i], options.now, "verify") # Ok)
       => outcome.state = "thrown"
  /\ RequestedContext = Undefined => outcome.state = "thrown"
  /\ outcome.state = "returned" =>
       /\ outcome.value.context.v[1] = RequestedContext
       /\ Includes(outcome.value.type.v, "VerifiablePresentation")
       /\ Credentials(outcome.value) = Supplied

\* C27: createPresentation returns a presentation only if the
\* verifiableCredential parameter was supplied, every supplied credential
\* passes _checkCredential and the shell passes _checkPresentation, and
\* throws otherwise; what it returns has the context of the requested
\* version first, the type VerifiablePresentation and the supplied
\* credentials in input order; an unknown version makes it throw.
C27_CreatePresentation ==
  (pc = "done" /\ options.op = "createPresentation") =>
    /\ CreatedAsRequested
    /\ outcome.state = "returned" => WasSupplied

\* ------------------------------------------------------------------------
\* The phases of one presentation verification
\* ------------------------------------------------------------------------
\* a delegated operation (jsigs.verify, checkStatus) returns, or the
\* continuation of an await whose promise has settled runs
Continuation ==
  \/ \E i \in 1..Len(tasks), out \in SuiteOutcomes : SuiteReturns(i, out)
  \/ \E i \in 1..Len(tasks), out \in StatusOutcomes : StatusReturns(i, out)
  \/ BatchSettles
  \/ \E out \in SuiteOutcomes : PresentationSuiteReturns(out)

\* the calls under the proviso that every delegated operation returns: a
\* pending call settles and the event loop runs the continuation of a
\* settled promise
SpecFair == Init /\ [][Next]_vars /\ WF_vars(Continuation)

\* a presentation verification is under way or complete
VerifyCalled == options.op = "verify"

\* the challenge check has been made and failed, or the suite has been
\* invoked for the presentation's own proof
ProofPhaseEntered ==
  \/ \E j \in 1..Len(suiteCalls) : suiteCalls[j].kind = "presentation"
  \/ outcome.state = "rejected" /\ outcome.error = ErrChallenge

\* every embedded credential's verification has completed: a task for each
\* credential, each settled, no suite or status call of it pending
CredentialBatchComplete ==
  /\ Len(tasks) = Len(Credentials(options.presentation.v[1]))
  /\ \A i \in 1..Len(tasks) :
       /\ tasks[i].pc = "settled"
       /\ \A j \in 1..Len(statusCalls[i]) :
            statusCalls[i][j].outcome # "pending"
  /\ \A j \in 1..Len(suiteCalls) :
       suiteCalls[j].kind = "credential" => suiteCalls[j].outcome # "pending"

\* the order of the phases, as far as the state shows it
PhasesInOrder ==
  VerifyCalled =>
    \* nothing is delegated before the structural check has passed
    /\ (Len(suiteCalls) > 0 \/ Len(tasks) > 0) =>
         /\ options.presentation.k = "one"
         /\ _checkPresentation(options.presentation.v[1]) = Ok
    \* the proof phase comes after the whole credential batch
    /\ ProofPhaseEntered => CredentialBatchComplete
    \* the suite is invoked for the presentation last, and once
    /\ \A j \in 1..Len(suiteCalls) :
         suiteCalls[j].kind = "presentation" => j = Len(suiteCalls)
    \* the aggregate is made after the presentation's proof was verified
    /\ (pc = "done" /\ outcome.state = "fulfilled"
        /\ outcome.value.presentationResult.k = "one") =>
         /\ Len(suiteCalls) > 0
         /\ suiteCalls[Len(suiteCalls)].kind = "presentation"
         /\ suiteCalls[Len(suiteCalls)].outcome # "pending"

StandAloneOptions(o, credential) ==
  [NoOptions EXCEPT !.op = "verifyCredential",
                    !.credential = One(credential),
                    !.documentLoader = o.documentLoader,
                    !.checkStatus = o.checkStatus,
                    !.now = o.now]

\* C29: what is verified for an embedded credential does not depend on the
\* presentation-level challenge, domain, controller or presentationPurpose:
\* the suite is invoked for it with the purpose and the loader a
\* stand-alone verifyCredential call with the same loader, status checker
\* and now would hand it.
C29_EmbeddedIndependentOfPresentationOptions ==
  VerifyCalled =>
    \A j \in 1..Len(suiteCalls) :
      suiteCalls[j].kind = "credential" =>
        LET alone == StandAloneOptions(options,
                       Credentials(options.presentation.v[1])
                         [suiteCalls[j].index]) IN
        /\ suiteCalls[j].purpose = CredentialPurpose(alone)
        /\ suiteCalls[j].documentLoader = ResolveLoader(alone)

\* ------------------------------------------------------------------------
\* The temporal policy of the two validators
\* ------------------------------------------------------------------------
\* the temporal fields that are present are format-valid date strings
TemporalFieldsFormatValid(c) ==
  \A d \in {c.issuanceDate, c.expirationDate, c.validFrom, c.validUntil} :
    d = NoDate \/ IsInstant(d)

\* the credential passes the non-temporal checks of both validators: both
\* accept it in mode 'issue', in which neither compares a date with now
PassesNonTemporalChecks(c, now) ==
  /\ _checkCredential(c, now, "issue") = Ok
  /\ assertCredential(c, now, "issue") = Ok

\* how the validator that was not called completes on the same arguments
OtherValidator ==
  IF options.op = "_checkCredential"
    THEN assertCredential(options.credential, options.now, options.mode)
    ELSE _checkCredential(options.credential, options.now, options.mode)

\* a validator call has completed on a credential C30 speaks of
TemporalCaseValidated ==
  /\ pc = "done"
  /\ options.op \in {"_checkCredential", "assertCredential"}
  /\ TemporalFieldsFormatValid(options.credential)
  /\ PassesNonTemporalChecks(options.credential, options.now)

\* C30: the two credential validators agree on the temporal policy: on a
\* credential that passes the non-temporal checks of both and whose
\* present temporal fields are format-valid date strings, the legacy
\* _checkCredential and the model-based assertCredential both accept or
\* both reject, at every instant now, in both modes and for both context
\* versions.
C30_ValidatorsAgreeOnDates ==
  TemporalCaseValidated =>
    (outcome.state = "returned" <=> OtherValidator = Ok)

\* a verification at the very instant a version 2.0 credential becomes
\* valid is accepted, and one of a version 1.0 credential after its
\* expirationDate is turned down
C30_Witness ==
  /\ TemporalCaseValidated
  /\ options.mode = "verify"
  /\ \/ /\ IsInstant(options.credential.validFrom)
        /\ options.credential.validFrom.t = options.now
        /\ outcome.state = "returned"
     \/ /\ IsInstant(options.credential.expirationDate)
        /\ options.credential.expirationDate.t < options.now
        /\ outcome.state = "thrown"

====
